---- MODULE Spec2Model ----
(***************************************************************************)
(* SchwiftyBox backend: the credential store, the JWT service, the auth    *)
(* handlers and the backpack-id allocator of item creation, as a state     *)
(* machine over the relational store (PostgreSQL, READ COMMITTED).         *)
(***************************************************************************)
EXTENDS Integers, Sequences, FiniteSets, TLC

\* ------------------------------------------------------------------ bounds

NWorkers == 2          \* concurrent requests served at once
MaxCalls == 3          \* item creations started in one behaviour
MaxTime == 4           \* clock ticks a behaviour runs through
MaxAllocTime == 2      \* clock ticks a behaviour of item creation runs through
MaxOrgs == 2           \* organization rows ever created
MaxItems == 2          \* item rows ever created in a behaviour of item management
TicksPerSec == 2       \* clock ticks in one second (sub-second resolution)

Workers == 1..NWorkers
Emails == {"ann@a.io", "bob@b.io"}
Passwords == {"password123", "wrongpassword"}
Letters3 == {"ABC", "XYZ"}       \* outcomes of the random 3-letter draw

VARIABLES
    users,        \* table users: email -> row (present = FALSE: no row)
    organizations,\* table organizations: sequence of names, index = id
    counters,     \* table backpack_id_next_numbers: prefix -> number (0: no row)
    items,        \* table items: sequence of rows, in insertion order
    itemSeq,      \* sequence items_id_seq: the last id handed out
    resetTokens,  \* table reset_tokens: sequence of rows, in insertion order
    resetSeq,     \* sequence reset_tokens_id_seq: the last id handed out
    resetLog,     \* password updates made through reset tokens, in order
    pc,           \* per worker: position inside the call it serves
    loc,          \* per worker: the locals of that call
    ret,          \* what the last CreateItem call that returned did
    allocLog,     \* sequence numbers returned by getNextID, in commit order
    calls,        \* item creations started so far
    now,          \* wall clock, in ticks
    cfg,          \* config.JWTConfig: lifetimes in ticks
    pair,         \* the token pair a client holds (NoPair: none)
    legacy,       \* the token without token_type a client holds (NoToken: none)
    last          \* the last response of the auth surface

vars == <<users, organizations, counters, items, itemSeq, resetTokens, resetSeq, resetLog,
          pc, loc, ret, allocLog, calls, now, cfg, pair, legacy, last>>

resetVars == <<resetTokens, resetSeq, resetLog>>
storeVars == <<users, organizations, counters, items, itemSeq, resetVars>>
authVars == <<cfg, pair, legacy, last>>

\* ------------------------------------------------------------------ strings

Digit(d) ==
    CASE d = 0 -> "0" [] d = 1 -> "1" [] d = 2 -> "2" [] d = 3 -> "3"
      [] d = 4 -> "4" [] d = 5 -> "5" [] d = 6 -> "6" [] d = 7 -> "7"
      [] d = 8 -> "8" [] d = 9 -> "9"

RECURSIVE FormatInt(_)
\* strconv.FormatInt(n, 10) and the digits of %d, for n >= 0
FormatInt(n) == IF n < 10 THEN Digit(n) ELSE FormatInt(n \div 10) \o Digit(n % 10)

RECURSIVE PadZero(_, _)
PadZero(s, width) == IF Len(s) >= width THEN s ELSE PadZero("0" \o s, width)

\* fmt.Sprintf("%04d", n): zero-padded to width 4, wider numbers are not cut
Sprintf04d(n) == PadZero(FormatInt(n), 4)

\* time.Time.Unix(): whole seconds, the sub-second part is dropped
Unix(t) == t \div TicksPerSec

\* email[:3]; the slice panics when the email is shorter than three bytes
EmailPrefix(email) == SubSeq(email, 1, 3)

\* ------------------------------------------------------------------ store

NoUser == [present |-> FALSE, password |-> "", prefix |-> "", org |-> 0]

UserRow(password, prefix, org) ==
    [present |-> TRUE, password |-> password, prefix |-> prefix, org |-> org]

NoLocals == [email |-> "", user |-> NoUser, number |-> 0, nextID |-> ""]
NoReturn == [status |-> "none", counterCommitted |-> FALSE, itemInserted |-> FALSE]

\* ------------------------------------------------------------------ jwt.Service

SecretKey == "secret"            \* JWT_SECRET, the signing key of the service
Lifetimes == {2, 3}              \* configured token lifetimes, in ticks
NoTokenType == "absent"          \* the claim set has no token_type entry

\* token.SignedString(key): the HS256 signature is a function of the claims and
\* the key, so two signed strings are equal exactly when claims and key are
SignedString(email, tokenType, exp, key) ==
    [email |-> email, token_type |-> tokenType, exp |-> exp, key |-> key]

NoToken == SignedString("", NoTokenType, 0, "")            \* the empty string
Malformed == SignedString("", NoTokenType, 0, "malformed") \* "invalid-token"
NoPair == [Token |-> NoToken, RefreshToken |-> NoToken]

\* GenerateToken: email and exp only, exp in whole seconds
GenerateToken(email, expiry, t) ==
    SignedString(email, NoTokenType, Unix(t + expiry), SecretKey)

\* the access token with the refresh token's lifetime
GenerateAccessToken_RefreshLifetime(email, t) ==
    SignedString(email, "access", Unix(t + cfg.RefreshTokenDuration), SecretKey)

GenerateAccessToken(email, t) ==
    SignedString(email, "access", Unix(t + cfg.AccessTokenDuration), SecretKey)

GenerateRefreshToken(email, t) ==
    SignedString(email, "refresh", Unix(t + cfg.RefreshTokenDuration), SecretKey)

GenerateTokenPair(email, t) ==
    [Token |-> GenerateAccessToken(email, t),
     RefreshToken |-> GenerateRefreshToken(email, t)]

\* GenerateTokenPair of the service without token kinds: two GenerateToken calls
GenerateTokenPairUntyped(email, t) ==
    [Token |-> GenerateToken(email, cfg.AccessTokenDuration, t),
     RefreshToken |-> GenerateToken(email, cfg.RefreshTokenDuration, t)]

\* the signature is not compared with the key
Parse_Unverified(tok, t) ==
    IF ~(t < tok.exp * TicksPerSec) THEN "token is expired"
    ELSE "nil"

\* off by one: the token still passes at its expiry instant
Parse_Inclusive(tok, t) ==
    IF tok.key # SecretKey THEN "signature is invalid"
    ELSE IF ~(t <= tok.exp * TicksPerSec) THEN "token is expired"
    ELSE "nil"

\* jwt.Parse with the service key at time t: the signature must verify and the
\* time must be before exp (a token is expired from the instant exp on)
Parse(tok, t) ==
    IF tok.key # SecretKey THEN "signature is invalid"
    ELSE IF ~(t < tok.exp * TicksPerSec) THEN "token is expired"
    ELSE "nil"

\* the validator looks the user of the token up in the store
ValidateToken_UserLookup(tok, t) ==
    IF Parse(tok, t) # "nil" THEN [email |-> "", err |-> Parse(tok, t)]
    ELSE IF tok.token_type # NoTokenType /\ tok.token_type # "access"
         THEN [email |-> "", err |-> "ErrInvalidKey"]
    ELSE IF tok.email \in DOMAIN users /\ ~users[tok.email].present
         THEN [email |-> "", err |-> "ErrUserNotFound"]
    ELSE [email |-> tok.email, err |-> "nil"]

\* the validator without the token_type check
ValidateToken_NoKindCheck(tok, t) ==
    IF Parse(tok, t) # "nil" THEN [email |-> "", err |-> Parse(tok, t)]
    ELSE [email |-> tok.email, err |-> "nil"]

\* ValidateToken: a token_type that is present must be "access"
ValidateToken(tok, t) ==
    IF Parse(tok, t) # "nil" THEN [email |-> "", err |-> Parse(tok, t)]
    ELSE IF tok.token_type # NoTokenType /\ tok.token_type # "access"
         THEN [email |-> "", err |-> "ErrInvalidKey"]
    ELSE [email |-> tok.email, err |-> "nil"]

\* the refresh validator with the access validator's kind test
ValidateRefreshToken_AccessKind(tok, t) ==
    IF Parse(tok, t) # "nil" THEN [email |-> "", err |-> Parse(tok, t)]
    ELSE IF tok.token_type # NoTokenType /\ tok.token_type # "access"
         THEN [email |-> "", err |-> "ErrInvalidKey"]
    ELSE [email |-> tok.email, err |-> "nil"]

\* ValidateRefreshToken: a token_type that is present must be "refresh"
ValidateRefreshToken(tok, t) ==
    IF Parse(tok, t) # "nil" THEN [email |-> "", err |-> Parse(tok, t)]
    ELSE IF tok.token_type # NoTokenType /\ tok.token_type # "refresh"
         THEN [email |-> "", err |-> "ErrInvalidKey"]
    ELSE [email |-> tok.email, err |-> "nil"]

\* ------------------------------------------------------------------ responses

\* a response of the auth surface with what it answered to: op the operation,
\* at the time, email/password/token the request, row the user row in the store
\* at that time, result the error value of the service call, issued the pair
\* returned, original the held pair the presented refresh token is part of
Response(op, email, password, token, row, storeFailed, result, status, error, issued, original) ==
    [op |-> op, at |-> now, email |-> email, password |-> password,
     token |-> token, row |-> row, storeFailed |-> storeFailed, result |-> result,
     status |-> status, error |-> error, issued |-> issued, original |-> original]

NoResponse ==
    [op |-> "none", at |-> 0, email |-> "", password |-> "", token |-> NoToken,
     row |-> NoUser, storeFailed |-> FALSE, result |-> "nil", status |-> 0,
     error |-> "", issued |-> NoPair, original |-> NoPair]

\* no item row; parent_id 0 is NULL
NoItem ==
    [id |-> 0, backpack_id |-> "", user_email |-> "", name |-> "", description |-> "",
     parent_id |-> 0, tags |-> {}]

\* an item row with no name, description, parent or tags
ItemRow(id, backpackID, email) ==
    [NoItem EXCEPT !.id = id, !.backpack_id = backpackID, !.user_email = email]

\* config.NewConfig: 15 minutes and 24 hours
DefaultConfig ==
    [AccessTokenDuration |-> 15 * 60 * TicksPerSec,
     RefreshTokenDuration |-> 24 * 60 * 60 * TicksPerSec]

InitStore ==
    /\ users = [e \in Emails |-> NoUser]
    /\ organizations = <<>>
    /\ counters = [p \in {} |-> 0]
    /\ items = <<>>
    /\ itemSeq = 0
    /\ resetTokens = <<>>
    /\ resetSeq = 0
    /\ resetLog = <<>>
    /\ pc = [w \in Workers |-> "idle"]
    /\ loc = [w \in Workers |-> NoLocals]
    /\ ret = NoReturn
    /\ allocLog = <<>>
    /\ calls = 0
    /\ now = 0
    /\ pair = NoPair
    /\ legacy = NoToken
    /\ last = NoResponse

Init == InitStore /\ cfg = DefaultConfig

\* the service under every configuration of the two lifetimes
InitAuth ==
    /\ InitStore
    /\ cfg \in [AccessTokenDuration : Lifetimes, RefreshTokenDuration : Lifetimes]

\* the committed number of a prefix, 0 when the table has no row for it
Counter(prefix) == IF prefix \in DOMAIN counters THEN counters[prefix] ELSE 0

SetCounter(prefix, n) ==
    [p \in DOMAIN counters \cup {prefix} |-> IF p = prefix THEN n ELSE counters[p]]

\* ------------------------------------------------------------------ clock

Tick ==
    /\ now < MaxTime
    /\ now' = now + 1
    /\ UNCHANGED <<storeVars, pc, loc, ret, allocLog, calls, authVars>>

\* ------------------------------------------------------------------ user.Service

\* the INSERT of the user row goes through for an email that has a row
CreateUserOutcome_Upsert(email, password, failAt) ==
    IF email = "" THEN "email cannot be empty"
    ELSE IF password = "" THEN "password cannot be empty"
    ELSE IF failAt = "begin" THEN "store error"
    ELSE IF failAt = "organization" THEN "store error"
    ELSE IF Len(email) < 3 THEN "panic recovered"
    ELSE IF failAt = "user" THEN "store error"
    ELSE IF failAt \in {"association", "commit"} THEN "store error"
    ELSE "nil"

\* CreateUser, the variant that also creates an organization. failAt names the
\* statement the store fails at. One transaction: nothing of a failed call stays.
CreateUserOutcome(email, password, failAt) ==
    IF email = "" THEN "email cannot be empty"
    ELSE IF password = "" THEN "password cannot be empty"
    ELSE IF failAt = "begin" THEN "store error"
    ELSE IF failAt = "organization" THEN "store error"
    ELSE IF Len(email) < 3 THEN "panic recovered"
    ELSE IF users[email].present THEN "duplicate key"
    ELSE IF failAt = "user" THEN "store error"
    ELSE IF failAt \in {"association", "commit"} THEN "store error"
    ELSE "nil"

CreateUser(email, password, failAt) ==
    /\ Len(organizations) < MaxOrgs
    /\ IF CreateUserOutcome(email, password, failAt) = "nil"
       THEN /\ organizations' = Append(organizations, email \o "_org")
            /\ users' = [users EXCEPT ![email] =
                   UserRow(password, EmailPrefix(email), Len(organizations) + 1)]
       ELSE UNCHANGED <<users, organizations>>
    /\ UNCHANGED <<resetVars, counters, items, itemSeq, pc, loc, ret, allocLog, calls, now,
                   authVars>>

\* the row of an email, NoUser when the table has none
Row(email) == IF email \in DOMAIN users THEN users[email] ELSE NoUser

\* the supplied password is compared over the length of the stored one only
ValidateUser_Prefix(email, password, storeFailed) ==
    IF storeFailed THEN "store error"
    ELSE IF ~Row(email).present THEN "ErrInvalidCredentials"
    ELSE IF Len(password) < Len(Row(email).password)
            \/ SubSeq(password, 1, Len(Row(email).password)) # Row(email).password
         THEN "ErrInvalidCredentials"
    ELSE "nil"

\* a lookup miss reported as such instead of as invalid credentials
ValidateUser_Leaky(email, password, storeFailed) ==
    IF storeFailed THEN "store error"
    ELSE IF ~Row(email).present THEN "ErrUserNotFound"
    ELSE IF Row(email).password # password THEN "ErrInvalidCredentials"
    ELSE "nil"

\* ValidateUser: a lookup miss and a password mismatch are the same error
ValidateUser(email, password, storeFailed) ==
    IF storeFailed THEN "store error"
    ELSE IF ~Row(email).present THEN "ErrInvalidCredentials"
    ELSE IF Row(email).password # password THEN "ErrInvalidCredentials"
    ELSE "nil"

\* the lookup without the existence check
GetUser_NoCheck(email, storeFailed) ==
    IF storeFailed THEN "store error" ELSE "nil"

\* GetUser, its error value
GetUser(email, storeFailed) ==
    IF storeFailed THEN "store error"
    ELSE IF ~Row(email).present THEN "ErrUserNotFound"
    ELSE "nil"

\* the user row is deleted in the store (DELETE FROM users WHERE email = ?);
\* items.user_email and reset_tokens.user_email are declared ON DELETE CASCADE
DeleteUserRow(email) ==
    /\ users[email].present
    /\ users' = [users EXCEPT ![email] = NoUser]
    /\ items' = SelectSeq(items, LAMBDA r : r.user_email # email)
    /\ resetTokens' = SelectSeq(resetTokens, LAMBDA r : r.user_email # email)
    /\ UNCHANGED <<organizations, counters, itemSeq, resetSeq, resetLog, pc, loc, ret,
                   allocLog, calls, now, authVars>>

\* CreateUser, the variant that inserts the user row alone (no prefix yet)
CreateUserPlain(email, password, fail) ==
    /\ IF ~fail /\ ~users[email].present
       THEN users' = [users EXCEPT ![email] = UserRow(password, "", 0)]
       ELSE UNCHANGED users
    /\ UNCHANGED <<resetVars, organizations, counters, items, itemSeq, pc, loc, ret, allocLog,
                   calls, now, authVars>>

\* ------------------------------------------------------------------ item.Service

\* a CreateItem call of worker w returns: its locals are dropped
\* (nextID is set once getNextID has committed its transaction)
Return(w, status, itemInserted) ==
    /\ pc' = [pc EXCEPT ![w] = "idle"]
    /\ loc' = [loc EXCEPT ![w] = NoLocals]
    /\ ret' = [status |-> status, counterCommitted |-> loc[w].nextID # "",
               itemInserted |-> itemInserted]

\* a worker whose open transaction holds the lock on the counter row of prefix
\* (an uncommitted INSERT or UPDATE of that row)
HoldsRow(w, prefix) == pc[w] = "written" /\ loc[w].user.prefix = prefix

\* one lock for the whole table: any open write blocks every other write
RowLocked_TableLock(w, prefix) == \E o \in Workers \ {w} : pc[o] = "written"

RowLocked(w, prefix) == \E o \in Workers \ {w} : HoldsRow(o, prefix)

\* CreateItem: the user lookup; with a prefix already set it goes on to getNextID
CreateItemLookup(w, email, fail) ==
    /\ pc[w] = "idle"
    /\ calls < MaxCalls
    /\ calls' = calls + 1
    /\ IF fail \/ ~users[email].present
       THEN Return(w, "error", FALSE)
       ELSE /\ pc' = [pc EXCEPT ![w] =
                  IF users[email].prefix = "" THEN "gotUser" ELSE "getNextID"]
            /\ loc' = [loc EXCEPT ![w] =
                  [NoLocals EXCEPT !.email = email, !.user = users[email]]]
            /\ UNCHANGED ret
    /\ UNCHANGED <<storeVars, allocLog, now, authVars>>

\* CreateItem: user.Prefix == "": draw a prefix and Save the whole user row
\* (Save writes every column and inserts the row when the UPDATE matches none)
CreateItemPrefix(w, prefix, fail) ==
    /\ pc[w] = "gotUser"
    /\ IF fail
       THEN /\ Return(w, "error", FALSE)
            /\ UNCHANGED users
       ELSE /\ users' = [users EXCEPT ![loc[w].email] =
                  [loc[w].user EXCEPT !.prefix = prefix]]
            /\ loc' = [loc EXCEPT ![w].user.prefix = prefix]
            /\ pc' = [pc EXCEPT ![w] = "getNextID"]
            /\ UNCHANGED ret
    /\ UNCHANGED <<resetVars, organizations, counters, items, itemSeq, allocLog, calls, now,
                   authVars>>

\* getNextID: Begin, then the SELECT of the counter row. READ COMMITTED: the
\* SELECT takes no lock and sees committed rows only.
GetNextIDSelect(w, fail) ==
    /\ pc[w] = "getNextID"
    /\ IF fail
       THEN Return(w, "error", FALSE)
       ELSE /\ pc' = [pc EXCEPT ![w] =
                  IF Counter(loc[w].user.prefix) = 0 THEN "notFound" ELSE "found"]
            /\ loc' = [loc EXCEPT ![w].number = Counter(loc[w].user.prefix)]
            /\ UNCHANGED ret
    /\ UNCHANGED <<storeVars, allocLog, calls, now, authVars>>

\* getNextID: no row was found: INSERT (prefix, 1). The unique index on
\* backpack_id makes the INSERT wait for an uncommitted INSERT of the same
\* prefix and fail once a row for the prefix is committed.
GetNextIDCreate(w, fail) ==
    /\ pc[w] = "notFound"
    /\ ~RowLocked(w, loc[w].user.prefix)
    /\ IF fail \/ Counter(loc[w].user.prefix) # 0
       THEN Return(w, "error", FALSE)
       ELSE /\ pc' = [pc EXCEPT ![w] = "written"]
            /\ loc' = [loc EXCEPT ![w].number = 1]
            /\ UNCHANGED ret
    /\ UNCHANGED <<storeVars, allocLog, calls, now, authVars>>

\* the row is written back with the number that was read
GetNextIDSave_NoIncrement(w, fail) ==
    /\ pc[w] = "found"
    /\ ~RowLocked(w, loc[w].user.prefix)
    /\ IF fail
       THEN Return(w, "error", FALSE)
       ELSE /\ pc' = [pc EXCEPT ![w] = "written"]
            /\ UNCHANGED <<loc, ret>>
    /\ UNCHANGED <<storeVars, allocLog, calls, now, authVars>>

\* getNextID: a row was found: Number++ on the value read, then UPDATE the row
\* by id. The UPDATE waits for the row lock of another open transaction.
GetNextIDSave(w, fail) ==
    /\ pc[w] = "found"
    /\ ~RowLocked(w, loc[w].user.prefix)
    /\ IF fail
       THEN Return(w, "error", FALSE)
       ELSE /\ pc' = [pc EXCEPT ![w] = "written"]
            /\ loc' = [loc EXCEPT ![w].number = loc[w].number + 1]
            /\ UNCHANGED ret
    /\ UNCHANGED <<storeVars, allocLog, calls, now, authVars>>

\* getNextID: Commit; a failed commit leaves nothing of the transaction
GetNextIDCommit(w, fail) ==
    /\ pc[w] = "written"
    /\ IF fail
       THEN /\ Return(w, "error", FALSE)
            /\ UNCHANGED <<counters, allocLog>>
       ELSE /\ counters' = SetCounter(loc[w].user.prefix, loc[w].number)
            /\ allocLog' = Append(allocLog,
                  [prefix |-> loc[w].user.prefix, number |-> loc[w].number])
            /\ pc' = [pc EXCEPT ![w] = "allocated"]
            /\ loc' = [loc EXCEPT ![w].nextID = Sprintf04d(loc[w].number)]
            /\ UNCHANGED ret
    /\ UNCHANGED <<resetVars, users, organizations, items, itemSeq, calls, now, authVars>>

\* CreateItem: backpackID := user.Prefix + nextID, then the INSERT of the item
\* row, outside the allocation transaction (which is committed by now)
CreateItemInsert(w, fail) ==
    /\ pc[w] = "allocated"
    /\ IF fail \/ ~users[loc[w].email].present
       THEN /\ Return(w, "error", FALSE)
            /\ UNCHANGED <<items, itemSeq>>
       ELSE /\ itemSeq' = itemSeq + 1
            /\ items' = Append(items,
                  ItemRow(itemSeq + 1, loc[w].user.prefix \o loc[w].nextID,
                          loc[w].email))
            /\ Return(w, "ok", TRUE)
    /\ UNCHANGED <<resetVars, users, organizations, counters, allocLog, calls, now, authVars>>

\* ------------------------------------------------------------------ handlers (items)

\* Handlers.CreateItem (POST /api/items): backpack_id is the user's prefix, "_"
\* and the Unix time in seconds; the allocator is not used
HandlersCreateItem(email, fail) ==
    /\ calls < MaxCalls
    /\ calls' = calls + 1
    /\ IF fail \/ ~users[email].present
       THEN UNCHANGED <<items, itemSeq>>
       ELSE /\ itemSeq' = itemSeq + 1
            /\ items' = Append(items,
                  ItemRow(itemSeq + 1,
                          users[email].prefix \o "_" \o FormatInt(Unix(now)), email))
    /\ UNCHANGED <<resetVars, users, organizations, counters, pc, loc, ret, allocLog, now,
                   authVars>>

\* ------------------------------------------------------------------ jwt.Service, called

\* the pair a client holds after it was handed tokens: the new one, or the one
\* it held before (it need not switch to the new pair)
HeldAfter(tokens) == {tokens} \cup (IF pair = NoPair THEN {} ELSE {pair})

\* the tokens a client can present: those of the pair and the untagged token it
\* holds, a string that is no token, and the empty string
Presentable == {pair.Token, pair.RefreshToken, legacy, Malformed, NoToken}

\* a GenerateToken call: a token without token_type comes into a client's hands
IssueToken(email, expiry) ==
    /\ legacy' = GenerateToken(email, expiry, now)
    /\ UNCHANGED <<storeVars, pc, loc, ret, allocLog, calls, now, cfg, pair, last>>

\* a GenerateTokenPair call
IssueTokenPair(email) ==
    LET tokens == GenerateTokenPair(email, now)
    IN /\ pair' \in HeldAfter(tokens)
       /\ last' = Response("GenerateTokenPair", email, "", NoToken, NoUser, FALSE,
                           "nil", 0, "", tokens, NoPair)
       /\ UNCHANGED <<storeVars, pc, loc, ret, allocLog, calls, now, cfg, legacy>>

\* a GenerateTokenPair call on the service without token kinds
IssueTokenPairUntyped(email) ==
    LET tokens == GenerateTokenPairUntyped(email, now)
    IN /\ legacy' \in {tokens.Token, tokens.RefreshToken}
       /\ last' = Response("GenerateTokenPairUntyped", email, "", NoToken, NoUser,
                           FALSE, "nil", 0, "", tokens, NoPair)
       /\ UNCHANGED <<storeVars, pc, loc, ret, allocLog, calls, now, cfg, pair>>

\* a ValidateToken call
CallValidateToken(tok) ==
    /\ last' = Response("ValidateToken", ValidateToken(tok, now).email, "", tok,
                        NoUser, FALSE, ValidateToken(tok, now).err, 0, "", NoPair,
                        NoPair)
    /\ UNCHANGED <<storeVars, pc, loc, ret, allocLog, calls, now, cfg, pair, legacy>>

\* a ValidateRefreshToken call
CallValidateRefreshToken(tok) ==
    /\ last' = Response("ValidateRefreshToken", ValidateRefreshToken(tok, now).email,
                        "", tok, NoUser, FALSE, ValidateRefreshToken(tok, now).err,
                        0, "", NoPair, NoPair)
    /\ UNCHANGED <<storeVars, pc, loc, ret, allocLog, calls, now, cfg, pair, legacy>>

NextJWT ==
    \/ Tick
    \/ \E e \in Emails, x \in Lifetimes : IssueToken(e, x)
    \/ \E e \in Emails : IssueTokenPair(e)
    \/ \E e \in Emails : IssueTokenPairUntyped(e)
    \/ \E tok \in Presentable : CallValidateToken(tok)
    \/ \E tok \in Presentable : CallValidateRefreshToken(tok)

\* the token service alone: issuing and validating over the clock, under every
\* configuration of the two lifetimes
SpecJWT == InitAuth /\ [][NextJWT]_vars

\* ------------------------------------------------------------------ jwt.Service, codec

OtherSecretKey == "different-secret-key"   \* the secret of another service
CodecLifetimes == {1, 2, 3}      \* lifetimes in ticks, from half a second on
CodecEmails == Emails \cup {""}
TokenTypes == {"access", "refresh", NoTokenType}

\* the lifetime a token of the kind is generated with (GenerateTokenPair of the
\* service without kinds calls GenerateToken with AccessTokenDuration)
LifetimeOf(tokenType) ==
    IF tokenType = "refresh" THEN cfg.RefreshTokenDuration
    ELSE cfg.AccessTokenDuration

\* the generator of a kind and the validator that matches it
Generate(email, tokenType, t) ==
    IF tokenType = "access" THEN GenerateAccessToken(email, t)
    ELSE IF tokenType = "refresh" THEN GenerateRefreshToken(email, t)
    ELSE GenerateToken(email, cfg.AccessTokenDuration, t)

Validate(tok, tokenType, t) ==
    IF tokenType = "refresh" THEN ValidateRefreshToken(tok, t)
    ELSE ValidateToken(tok, t)

\* a token is generated and validated at once by the matching validator:
\* subject and lifetime are what the generator was called with, email and
\* result what the validator returned
RoundTrip(email, tokenType) ==
    LET tok == Generate(email, tokenType, now)
        v == Validate(tok, tokenType, now)
    IN /\ last' = [op |-> "RoundTrip", at |-> now, email |-> v.email,
                   password |-> "", token |-> tok, row |-> NoUser,
                   storeFailed |-> FALSE, result |-> v.err, status |-> 0,
                   error |-> "", issued |-> NoPair, original |-> NoPair,
                   subject |-> email, kind |-> tokenType,
                   lifetime |-> LifetimeOf(tokenType)]
       /\ UNCHANGED <<storeVars, pc, loc, ret, allocLog, calls, now, cfg, pair, legacy>>

\* the tokens of a service configured with another secret
ForeignTokens ==
    {SignedString(e, k, x, OtherSecretKey) :
         e \in Emails, k \in TokenTypes, x \in 0..(Unix(MaxTime) + 1)}

InitCodec ==
    /\ InitStore
    /\ cfg \in [AccessTokenDuration : CodecLifetimes,
                RefreshTokenDuration : CodecLifetimes]

NextCodec ==
    \/ Tick
    \/ \E e \in CodecEmails, k \in TokenTypes : RoundTrip(e, k)
    \/ \E tok \in ForeignTokens : CallValidateToken(tok)
    \/ \E tok \in ForeignTokens : CallValidateRefreshToken(tok)

\* encoding and decoding: round trips and the tokens of another secret
SpecCodec == InitCodec /\ [][NextCodec]_vars

\* ------------------------------------------------------------------ middleware

\* what a client puts before the credentials of an Authorization header
Schemes == {"", "Bearer", "Bearer ", "bearer ", "Basic "}

\* an Authorization header: the string scheme \o token; the empty scheme with
\* the empty token is the header that is not there
Header(scheme, tok) == [scheme |-> scheme, token |-> tok]

\* the comparison is one byte short: "Bearer" without the space passes
HasPrefix_Short(s, prefix) ==
    /\ Len(s) >= Len(prefix) - 1
    /\ SubSeq(s, 1, Len(prefix) - 1) = SubSeq(prefix, 1, Len(prefix) - 1)

\* strings.HasPrefix
HasPrefix(s, prefix) ==
    /\ Len(s) >= Len(prefix)
    /\ SubSeq(s, 1, Len(prefix)) = prefix

\* AuthMiddleware in front of a protected handler: handlerInvoked is c.Next(),
\* user_email what c.Set put into the context
AuthMiddleware(header) ==
    LET v == ValidateToken(header.token, now)
        Answer(status, error, invoked, email) ==
            [op |-> "AuthMiddleware", at |-> now, email |-> "", password |-> "",
             token |-> header.token, row |-> NoUser, storeFailed |-> FALSE,
             result |-> v.err, status |-> status, error |-> error,
             issued |-> NoPair, original |-> NoPair, header |-> header,
             handlerInvoked |-> invoked, user_email |-> email]
    IN /\ last' =
            IF header.scheme = "" /\ header.token = NoToken
            THEN Answer(401, "Authorization header required", FALSE, "")
            ELSE IF ~HasPrefix(header.scheme, "Bearer ")
            THEN Answer(401, "Invalid authorization header format", FALSE, "")
            ELSE IF v.err # "nil"
            THEN Answer(401, "Invalid token", FALSE, "")
            ELSE Answer(200, "", TRUE, v.email)
       /\ UNCHANGED <<storeVars, pc, loc, ret, allocLog, calls, now, cfg, pair, legacy>>

NextGuard ==
    \/ Tick
    \/ \E e \in Emails, x \in Lifetimes : IssueToken(e, x)
    \/ \E e \in Emails : IssueTokenPair(e)
    \/ \E sch \in Schemes, tok \in Presentable : AuthMiddleware(Header(sch, tok))

\* the protected routes: tokens are issued, age, and are presented in a header
SpecGuard == InitAuth /\ [][NextGuard]_vars

\* ------------------------------------------------------------------ handlers (auth)

\* Handlers.Login (POST /api/token)
Login(email, password, storeFailed) ==
    LET result == ValidateUser(email, password, storeFailed)
        tokens == GenerateTokenPair(email, now)
    IN /\ IF result = "ErrInvalidCredentials"
          THEN /\ last' = Response("Login", email, password, NoToken, Row(email),
                     storeFailed, result, 401, "Invalid credentials", NoPair, NoPair)
               /\ UNCHANGED pair
          ELSE IF result # "nil"
          THEN /\ last' = Response("Login", email, password, NoToken, Row(email),
                     storeFailed, result, 500, "Login failed", NoPair, NoPair)
               /\ UNCHANGED pair
          ELSE /\ pair' \in HeldAfter(tokens)
               /\ last' = Response("Login", email, password, NoToken, Row(email),
                     storeFailed, result, 200, "", tokens, NoPair)
       /\ UNCHANGED <<storeVars, pc, loc, ret, allocLog, calls, now, cfg, legacy>>

\* the call before this one was a successful exchange of the same refresh token
ExchangedJustBefore(tok) ==
    last.op = "RefreshToken" /\ last.status = 200 /\ last.token = tok

\* the answer of RefreshToken; again: the token was exchanged just before
RefreshResponse(email, tok, row, storeFailed, result, status, error, issued, original, again) ==
    [op |-> "RefreshToken", at |-> now, email |-> email, password |-> "",
     token |-> tok, row |-> row, storeFailed |-> storeFailed, result |-> result,
     status |-> status, error |-> error, issued |-> issued, original |-> original,
     again |-> again]

\* a refresh token is good for one exchange: the one just exchanged is refused
RefreshToken_SingleUse(tok, storeFailed) ==
    LET v == ValidateRefreshToken(tok, now)
        found == GetUser(v.email, storeFailed)
        tokens == GenerateTokenPair(v.email, now)
        original == IF pair.RefreshToken = tok THEN pair ELSE NoPair
        again == ExchangedJustBefore(tok)
    IN /\ IF tok = NoToken
          THEN /\ last' = RefreshResponse("", tok, NoUser, FALSE,
                     "binding", 400, "Invalid input", NoPair, original, again)
               /\ UNCHANGED pair
          ELSE IF v.err # "nil"
          THEN /\ last' = RefreshResponse("", tok, NoUser, FALSE,
                     v.err, 401, "Invalid refresh token", NoPair, original, again)
               /\ UNCHANGED pair
          ELSE IF again
          THEN /\ last' = RefreshResponse(v.email, tok, Row(v.email),
                     storeFailed, "ErrTokenUsed", 401, "Invalid refresh token", NoPair,
                     original, again)
               /\ UNCHANGED pair
          ELSE IF found = "ErrUserNotFound"
          THEN /\ last' = RefreshResponse(v.email, tok, Row(v.email),
                     storeFailed, found, 401, "User not found", NoPair, original, again)
               /\ UNCHANGED pair
          ELSE IF found # "nil"
          THEN /\ last' = RefreshResponse(v.email, tok, Row(v.email),
                     storeFailed, found, 500, "Failed to validate user", NoPair,
                     original, again)
               /\ UNCHANGED pair
          ELSE /\ pair' \in HeldAfter(tokens)
               /\ last' = RefreshResponse(v.email, tok, Row(v.email),
                     storeFailed, found, 200, "", tokens, original, again)
       /\ UNCHANGED <<storeVars, pc, loc, ret, allocLog, calls, now, cfg, legacy>>

\* Handlers.RefreshToken (POST /api/refresh)
RefreshToken(tok, storeFailed) ==
    LET v == ValidateRefreshToken(tok, now)
        found == GetUser(v.email, storeFailed)
        tokens == GenerateTokenPair(v.email, now)
        original == IF pair.RefreshToken = tok THEN pair ELSE NoPair
        again == ExchangedJustBefore(tok)
    IN /\ IF tok = NoToken
          THEN /\ last' = RefreshResponse("", tok, NoUser, FALSE,
                     "binding", 400, "Invalid input", NoPair, original, again)
               /\ UNCHANGED pair
          ELSE IF v.err # "nil"
          THEN /\ last' = RefreshResponse("", tok, NoUser, FALSE,
                     v.err, 401, "Invalid refresh token", NoPair, original, again)
               /\ UNCHANGED pair
          ELSE IF found = "ErrUserNotFound"
          THEN /\ last' = RefreshResponse(v.email, tok, Row(v.email),
                     storeFailed, found, 401, "User not found", NoPair, original, again)
               /\ UNCHANGED pair
          ELSE IF found # "nil"
          THEN /\ last' = RefreshResponse(v.email, tok, Row(v.email),
                     storeFailed, found, 500, "Failed to validate user", NoPair,
                     original, again)
               /\ UNCHANGED pair
          ELSE /\ pair' \in HeldAfter(tokens)
               /\ last' = RefreshResponse(v.email, tok, Row(v.email),
                     storeFailed, found, 200, "", tokens, original, again)
       /\ UNCHANGED <<storeVars, pc, loc, ret, allocLog, calls, now, cfg, legacy>>

\* Handlers.VerifyToken (POST /api/token/verify): ValidateToken and its answer
VerifyToken(tok) ==
    LET v == ValidateToken(tok, now)
    IN /\ last' =
            IF tok = NoToken
            THEN Response("VerifyToken", "", "", tok, NoUser, FALSE, "binding", 400,
                          "Invalid input", NoPair, NoPair)
            ELSE IF v.err # "nil"
            THEN Response("VerifyToken", "", "", tok, NoUser, FALSE, v.err, 401,
                          "Invalid token", NoPair, NoPair)
            ELSE Response("VerifyToken", v.email, "", tok, NoUser, FALSE, v.err, 200,
                          "", NoPair, NoPair)
       /\ UNCHANGED <<storeVars, pc, loc, ret, allocLog, calls, now, cfg, pair,
                      legacy>>

\* passwords that differ in one byte: case, a trailing space
LoginPasswords == {"password123", "Password123", "password123 "}

\* ------------------------------------------------------------------ handlers (register)

FailPoints == {"none", "begin", "organization", "user", "association", "commit"}

\* the statements run on the store directly, not inside a transaction: what was
\* written before the failure stays
Persisted_NoTransaction(email, password, failAt) ==
    [organization |-> email # "" /\ password # "" /\ failAt \notin {"begin", "organization"},
     user |-> CreateUserOutcome(email, password, failAt) = "nil"
                  \/ (~users[email].present /\ failAt \in {"association", "commit"})]

\* what a CreateUser call leaves in the store: the rows written through tx stay
\* if the transaction committed; every failure path rolls it back
Persisted(email, password, failAt) ==
    [organization |-> CreateUserOutcome(email, password, failAt) = "nil",
     user |-> CreateUserOutcome(email, password, failAt) = "nil"]

\* Handlers.RegisterUser (POST /api/register) over CreateUser with organization
RegisterUser(email, password, failAt) ==
    LET outcome == CreateUserOutcome(email, password, failAt)
        kept == Persisted(email, password, failAt)
    IN /\ Len(organizations) < MaxOrgs
       /\ organizations' = IF kept.organization
                           THEN Append(organizations, email \o "_org")
                           ELSE organizations
       /\ users' = IF kept.user
                   THEN [users EXCEPT ![email] =
                            UserRow(password, EmailPrefix(email), Len(organizations) + 1)]
                   ELSE users
       /\ last' =
            IF outcome = "nil"
            THEN Response("RegisterUser", email, password, NoToken, Row(email),
                          failAt # "none", outcome, 201, "", NoPair, NoPair)
            ELSE IF outcome = "ErrUserAlreadyExists"
            THEN Response("RegisterUser", email, password, NoToken, Row(email),
                          failAt # "none", outcome, 409, "User already exists",
                          NoPair, NoPair)
            ELSE Response("RegisterUser", email, password, NoToken, Row(email),
                          failAt # "none", outcome, 500, "Failed to create user",
                          NoPair, NoPair)
       /\ UNCHANGED <<resetVars, counters, items, itemSeq, pc, loc, ret, allocLog, calls, now,
                      cfg, pair, legacy>>

\* Handlers.RegisterUser over CreateUser that inserts the user row alone
RegisterUserPlain(email, password, fail) ==
    /\ users' = IF ~fail /\ ~users[email].present
                THEN [users EXCEPT ![email] = UserRow(password, "", 0)]
                ELSE users
    /\ last' =
         IF ~fail /\ ~users[email].present
         THEN Response("RegisterUserPlain", email, password, NoToken, Row(email),
                       fail, "nil", 201, "", NoPair, NoPair)
         ELSE Response("RegisterUserPlain", email, password, NoToken, Row(email),
                       fail, IF fail THEN "store error" ELSE "duplicate key", 500,
                       "Failed to create user", NoPair, NoPair)
    /\ UNCHANGED <<resetVars, organizations, counters, items, itemSeq, pc, loc, ret, allocLog,
                   calls, now, cfg, pair, legacy>>

NextRegister ==
    \/ \E e \in Emails, p \in LoginPasswords, f \in FailPoints : RegisterUser(e, p, f)
    \/ \E e \in Emails, p \in LoginPasswords, f \in BOOLEAN : RegisterUserPlain(e, p, f)
    \/ \E e \in Emails : DeleteUserRow(e)

\* registration in both variants, with deletion
SpecRegister == Init /\ [][NextRegister]_vars

NextLogin ==
    \/ \E e \in Emails, p \in LoginPasswords, f \in BOOLEAN : CreateUserPlain(e, p, f)
    \/ \E e \in Emails : DeleteUserRow(e)
    \/ \E e \in Emails, p \in LoginPasswords, f \in BOOLEAN : Login(e, p, f)

\* registration, deletion and login with passwords that are nearly equal
SpecLogin == Init /\ [][NextLogin]_vars

NextAuth ==
    \/ Tick
    \/ \E e \in Emails, f \in BOOLEAN : CreateUserPlain(e, "password123", f)
    \/ \E e \in Emails : DeleteUserRow(e)
    \/ \E e \in Emails, p \in Passwords, f \in BOOLEAN : Login(e, p, f)
    \/ \E tok \in Presentable, f \in BOOLEAN : RefreshToken(tok, f)
    \/ \E tok \in Presentable : VerifyToken(tok)

\* registration, login, refresh and verification over the clock
SpecAuth == InitAuth /\ [][NextAuth]_vars

NextAlloc ==
    \/ (now < MaxAllocTime /\ Tick)
    \/ \E e \in Emails, f \in {"none", "begin", "organization", "user",
                               "association", "commit"} :
           CreateUser(e, "password123", f)
    \/ \E e \in Emails, f \in BOOLEAN : CreateUserPlain(e, "password123", f)
    \/ \E w \in Workers, e \in Emails, f \in BOOLEAN : CreateItemLookup(w, e, f)
    \/ \E w \in Workers, p \in Letters3, f \in BOOLEAN : CreateItemPrefix(w, p, f)
    \/ \E w \in Workers, f \in BOOLEAN : GetNextIDSelect(w, f)
    \/ \E w \in Workers, f \in BOOLEAN : GetNextIDCreate(w, f)
    \/ \E w \in Workers, f \in BOOLEAN : GetNextIDSave(w, f)
    \/ \E w \in Workers, f \in BOOLEAN : GetNextIDCommit(w, f)
    \/ \E w \in Workers, f \in BOOLEAN : CreateItemInsert(w, f)
    \/ \E e \in Emails, f \in BOOLEAN : HandlersCreateItem(e, f)

\* item creation and the allocator, with registration and the clock
SpecAlloc == Init /\ [][NextAlloc]_vars

\* worker w is inside the transaction of getNextID
InGetNextID(w) == pc[w] \in {"notFound", "found", "written"}

\* another worker is inside getNextID for the prefix of w
SamePrefixOpen(w) ==
    \E o \in Workers \ {w} : InGetNextID(o) /\ loc[o].user.prefix = loc[w].user.prefix

NextIndep ==
    \/ \E e \in Emails, f \in {"none", "user"} : CreateUser(e, "password123", f)
    \/ \E w \in Workers, e \in Emails, f \in BOOLEAN : CreateItemLookup(w, e, f)
    \/ \E w \in Workers, f \in BOOLEAN : ~SamePrefixOpen(w) /\ GetNextIDSelect(w, f)
    \/ \E w \in Workers, f \in BOOLEAN : GetNextIDCreate(w, f)
    \/ \E w \in Workers, f \in BOOLEAN : GetNextIDSave(w, f)
    \/ \E w \in Workers, f \in BOOLEAN : GetNextIDCommit(w, f)
    \/ \E w \in Workers, f \in BOOLEAN : CreateItemInsert(w, f)

\* users registered with their prefix (CreateUser with organization): the
\* allocations of different prefixes overlap freely, those of one prefix follow
\* one another
SpecIndep == Init /\ [][NextIndep]_vars

NextService ==
    \/ \E e \in Emails, f \in FailPoints : CreateUser(e, "password123", f)
    \/ \E e \in Emails, f \in BOOLEAN : CreateUserPlain(e, "password123", f)
    \/ \E w \in Workers, e \in Emails, f \in BOOLEAN : CreateItemLookup(w, e, f)
    \/ \E w \in Workers, p \in Letters3, f \in BOOLEAN : CreateItemPrefix(w, p, f)
    \/ \E w \in Workers, f \in BOOLEAN : GetNextIDSelect(w, f)
    \/ \E w \in Workers, f \in BOOLEAN : GetNextIDCreate(w, f)
    \/ \E w \in Workers, f \in BOOLEAN : GetNextIDSave(w, f)
    \/ \E w \in Workers, f \in BOOLEAN : GetNextIDCommit(w, f)
    \/ \E w \in Workers, f \in BOOLEAN : CreateItemInsert(w, f)

\* item.Service.CreateItem called concurrently, with registration
SpecService == Init /\ [][NextService]_vars

\* no request is inside CreateItem
Idle == \A w \in Workers : pc[w] = "idle"

NextSeq ==
    \/ \E e \in Emails, f \in {"none", "user"} : Idle /\ CreateUser(e, "password123", f)
    \/ \E e \in Emails, f \in BOOLEAN : Idle /\ CreateUserPlain(e, "password123", f)
    \/ \E e \in Emails, f \in BOOLEAN : Idle /\ CreateItemLookup(1, e, f)
    \/ \E p \in Letters3, f \in BOOLEAN : CreateItemPrefix(1, p, f)
    \/ \E f \in BOOLEAN : GetNextIDSelect(1, f)
    \/ \E f \in BOOLEAN : GetNextIDCreate(1, f)
    \/ \E f \in BOOLEAN : GetNextIDSave(1, f)
    \/ \E f \in BOOLEAN : GetNextIDCommit(1, f)
    \/ \E f \in BOOLEAN : CreateItemInsert(1, f)

\* item creation one request after the other, all served by the first worker:
\* no two calls overlap
SpecSeq == Init /\ [][NextSeq]_vars

\* the store after ann@a.io has registered and created a first item, no call
\* running
AfterFirstItem ==
    /\ users = [e \in Emails |->
                   IF e = "ann@a.io" THEN UserRow("password123", EmailPrefix(e), 1)
                   ELSE NoUser]
    /\ organizations = <<"ann@a.io" \o "_org">>
    /\ counters = [q \in {EmailPrefix("ann@a.io")} |-> 1]
    /\ items = <<ItemRow(1, EmailPrefix("ann@a.io") \o Sprintf04d(1), "ann@a.io")>>
    /\ itemSeq = 1
    /\ allocLog = <<[prefix |-> EmailPrefix("ann@a.io"), number |-> 1]>>
    /\ resetTokens = <<>>
    /\ resetSeq = 0
    /\ resetLog = <<>>
    /\ pc = [w \in Workers |-> "idle"]
    /\ loc = [w \in Workers |-> NoLocals]
    /\ ret = NoReturn
    /\ calls = 0
    /\ now = 0
    /\ pair = NoPair
    /\ legacy = NoToken
    /\ last = NoResponse
    /\ cfg = DefaultConfig

NextCounter ==
    \/ \E e \in Emails : CreateUser(e, "password123", "none")
    \/ \E w \in Workers, e \in Emails : CreateItemLookup(w, e, FALSE)
    \/ \E w \in Workers, f \in BOOLEAN : GetNextIDSelect(w, f)
    \/ \E w \in Workers, f \in BOOLEAN : GetNextIDCreate(w, f)
    \/ \E w \in Workers, f \in BOOLEAN : GetNextIDSave(w, f)
    \/ \E w \in Workers, f \in BOOLEAN : GetNextIDCommit(w, f)
    \/ \E w \in Workers, f \in BOOLEAN : CreateItemInsert(w, f)

\* concurrent item creation for registered users, from the empty store and from
\* a store that has a counter row
SpecCounter == (Init \/ AfterFirstItem) /\ [][NextCounter]_vars

\* ------------------------------------------------------------------ user.Service, called

ShortEmail == "ab"               \* an email of fewer than three bytes
CreateEmails == Emails \cup {"", ShortEmail}
CreatePasswords == {"password123", ""}

\* what CreateUser with organization returns: the recovered panic of email[:3]
\* leaves the function through the deferred call, with the zero error value
CreateUserReturn(email, password, failAt) ==
    IF CreateUserOutcome(email, password, failAt) = "panic recovered" THEN "nil"
    ELSE CreateUserOutcome(email, password, failAt)

\* the answer of a CreateUser call: row the user row before the call, after
\* the user row after it, committed whether the call left a row of its own
CreateAnswer(op, email, password, failed, result, after, committed) ==
    [op |-> op, at |-> now, email |-> email, password |-> password,
     token |-> NoToken, row |-> Row(email), storeFailed |-> failed,
     result |-> result, status |-> 0, error |-> "", issued |-> NoPair,
     original |-> NoPair, after |-> after, committed |-> committed]

\* user.Service.CreateUser with organization, called directly
ServiceCreateUser(email, password, failAt) ==
    LET kept == Persisted(email, password, failAt)
        row == UserRow(password, EmailPrefix(email), Len(organizations) + 1)
    IN /\ Len(organizations) < MaxOrgs
       /\ organizations' = IF kept.organization
                           THEN Append(organizations, email \o "_org")
                           ELSE organizations
       /\ users' = IF kept.user THEN [users EXCEPT ![email] = row] ELSE users
       /\ last' = CreateAnswer("CreateUser", email, password, failAt # "none",
                       CreateUserReturn(email, password, failAt),
                       IF kept.user THEN row ELSE Row(email), kept.user)
       /\ UNCHANGED <<resetVars, counters, items, itemSeq, pc, loc, ret, allocLog,
                      calls, now, cfg, pair, legacy>>

\* user.Service.CreateUser that inserts the user row alone, called directly:
\* nothing is looked at but the error of the INSERT
ServiceCreateUserPlain(email, password, fail) ==
    LET inserted == ~fail /\ ~Row(email).present
        row == UserRow(password, "", 0)
    IN /\ users' = IF inserted THEN [users EXCEPT ![email] = row] ELSE users
       /\ last' = CreateAnswer("CreateUserPlain", email, password, fail,
                       IF inserted THEN "nil"
                       ELSE IF fail THEN "store error" ELSE "duplicate key",
                       IF inserted THEN row ELSE Row(email), inserted)
       /\ UNCHANGED <<resetVars, organizations, counters, items, itemSeq, pc, loc,
                      ret, allocLog, calls, now, cfg, pair, legacy>>

\* the empty store with the default configuration, for the emails of a set
InitOver(emails) ==
    /\ users = [e \in emails |-> NoUser]
    /\ organizations = <<>>
    /\ counters = [p \in {} |-> 0]
    /\ items = <<>>
    /\ itemSeq = 0
    /\ resetTokens = <<>>
    /\ resetSeq = 0
    /\ resetLog = <<>>
    /\ pc = [w \in Workers |-> "idle"]
    /\ loc = [w \in Workers |-> NoLocals]
    /\ ret = NoReturn
    /\ allocLog = <<>>
    /\ calls = 0
    /\ now = 0
    /\ pair = NoPair
    /\ legacy = NoToken
    /\ last = NoResponse
    /\ cfg = DefaultConfig

\* a store whose users table can hold the email of every call
InitCreate == InitOver(CreateEmails \ {ShortEmail})

NextCreate ==
    \/ \E e \in CreateEmails, p \in CreatePasswords, f \in FailPoints :
           ServiceCreateUser(e, p, f)
    \/ \E e \in CreateEmails \ {ShortEmail}, p \in CreatePasswords, f \in BOOLEAN :
           ServiceCreateUserPlain(e, p, f)
    \/ \E e \in CreateEmails \ {ShortEmail} : DeleteUserRow(e)

\* the user service called directly, with every email and password
SpecCreate == InitCreate /\ [][NextCreate]_vars

\* two emails with the same first three characters, and a third
NamesakeEmails == Emails \cup {"ann@b.io"}

NextNamespace ==
    \/ \E e \in NamesakeEmails : CreateUser(e, "password123", "none")
    \/ \E e \in NamesakeEmails : CreateUserPlain(e, "password123", FALSE)
    \/ \E w \in Workers, e \in NamesakeEmails : CreateItemLookup(w, e, FALSE)
    \/ \E w \in Workers, p \in Letters3 : CreateItemPrefix(w, p, FALSE)
    \/ \E w \in Workers : GetNextIDSelect(w, FALSE)
    \/ \E w \in Workers : GetNextIDCreate(w, FALSE)
    \/ \E w \in Workers : GetNextIDSave(w, FALSE)
    \/ \E w \in Workers : GetNextIDCommit(w, FALSE)
    \/ \E w \in Workers : CreateItemInsert(w, FALSE)

\* users of both registrations create items, the store never failing
SpecNamespace == InitOver(NamesakeEmails) /\ [][NextNamespace]_vars

\* ------------------------------------------------------------------ reset.Service

ResetLifetime == 5 * 60 * TicksPerSec      \* 5 * time.Minute, in ticks
ResetStrings == {"Ab3dEf6hIj9lMn0", "Zy8xWv5uTs2rQp1"}   \* outcomes of generateToken
NewPasswords == {"newpassword123", "otherpassword1"}

ResetTokenRow(id, token, expiredAt, email) ==
    [id |-> id, token |-> token, expired_at |-> expiredAt, user_email |-> email]

NoResetToken == ResetTokenRow(0, "", 0, "")

\* the locals of a reset call: op the function that runs, row the token row it
\* read, password the new password it was given
ResetLocals(op, email, row, password) ==
    [email |-> email, user |-> NoUser, number |-> 0, nextID |-> "", op |-> op,
     row |-> row, password |-> password]

\* the answer of a reset call: resetToken the token string of the request or of
\* the answer, row the token row the call read or wrote
ResetAnswer(op, email, password, resetToken, row, result, status, error) ==
    [op |-> op, at |-> now, email |-> email, password |-> password,
     token |-> NoToken, row |-> Row(email), storeFailed |-> result = "store error",
     result |-> result, status |-> status, error |-> error, issued |-> NoPair,
     original |-> NoPair, resetToken |-> resetToken, reset |-> row]

\* SELECT ... WHERE token = ? ... First: the row of a token string, NoResetToken
\* when there is none (the unique index leaves at most one)
FindResetToken(tok) ==
    IF \E i \in DOMAIN resetTokens : resetTokens[i].token = tok
    THEN resetTokens[CHOOSE i \in DOMAIN resetTokens : resetTokens[i].token = tok]
    ELSE NoResetToken

\* the INSERT of a token row goes through: the token string is not in the table
\* (unique index) and the user row is there (foreign key)
CanInsertResetToken(tok, email) ==
    /\ FindResetToken(tok) = NoResetToken
    /\ Row(email).present

\* a reset call of worker w returns
ResetReturn(w, answer) ==
    /\ pc' = [pc EXCEPT ![w] = "idle"]
    /\ loc' = [loc EXCEPT ![w] = NoLocals]
    /\ last' = answer

\* CreateResetToken: the user lookup
CreateResetTokenLookup(w, email, fail) ==
    /\ pc[w] = "idle"
    /\ calls < MaxCalls
    /\ calls' = calls + 1
    /\ IF fail
       THEN ResetReturn(w, ResetAnswer("CreateResetToken", email, "", "",
                                       NoResetToken, "store error", 0, ""))
       ELSE IF ~Row(email).present
       THEN ResetReturn(w, ResetAnswer("CreateResetToken", email, "", "",
                                       NoResetToken, "user not found", 0, ""))
       ELSE /\ pc' = [pc EXCEPT ![w] = "deleteOld"]
            /\ loc' = [loc EXCEPT ![w] =
                  ResetLocals("CreateResetToken", email, NoResetToken, "")]
            /\ UNCHANGED last
    /\ UNCHANGED <<storeVars, ret, allocLog, now, cfg, pair, legacy>>

\* CreateResetToken: DELETE FROM reset_tokens WHERE user_email = ?, a statement
\* of its own whose error is not looked at
CreateResetTokenDelete(w, fail) ==
    /\ pc[w] = "deleteOld"
    /\ resetTokens' = IF fail THEN resetTokens
                      ELSE SelectSeq(resetTokens,
                                     LAMBDA r : r.user_email # loc[w].email)
    /\ pc' = [pc EXCEPT ![w] = "createNew"]
    /\ UNCHANGED <<users, organizations, counters, items, itemSeq, resetSeq, resetLog,
                   loc, ret, allocLog, calls, now, authVars>>

\* CreateResetToken: generateToken, expiry in 5 minutes, INSERT of the row
CreateResetTokenCreate(w, tok, fail) ==
    LET row == ResetTokenRow(resetSeq + 1, tok, now + ResetLifetime, loc[w].email)
    IN /\ pc[w] = "createNew"
       /\ IF fail \/ ~CanInsertResetToken(tok, loc[w].email)
          THEN /\ ResetReturn(w, ResetAnswer("CreateResetToken", loc[w].email, "",
                                   "", NoResetToken, "store error", 0, ""))
               /\ UNCHANGED <<resetTokens, resetSeq>>
          ELSE /\ resetTokens' = Append(resetTokens, row)
               /\ resetSeq' = resetSeq + 1
               /\ ResetReturn(w, ResetAnswer("CreateResetToken", loc[w].email, "",
                                   tok, row, "nil", 0, ""))
       /\ UNCHANGED <<users, organizations, counters, items, itemSeq, resetLog, ret,
                      allocLog, calls, now, cfg, pair, legacy>>

\* time.Now().After(ExpiredAt)
After(t, u) == t > u

\* ResetPassword: ValidateResetToken. The row is read; a row found expired is
\* deleted by its id (the error of the DELETE is not looked at).
ResetPasswordValidate(w, tok, password, fail, failDelete) ==
    LET row == FindResetToken(tok)
    IN /\ pc[w] = "idle"
       /\ calls < MaxCalls
       /\ calls' = calls + 1
       /\ IF fail
          THEN /\ ResetReturn(w, ResetAnswer("ResetPassword", "", password, tok,
                                   NoResetToken, "store error", 0, ""))
               /\ UNCHANGED resetTokens
          ELSE IF row = NoResetToken
          THEN /\ ResetReturn(w, ResetAnswer("ResetPassword", "", password, tok,
                                   NoResetToken, "ErrResetTokenNotFound", 0, ""))
               /\ UNCHANGED resetTokens
          ELSE IF After(now, row.expired_at)
          THEN /\ ResetReturn(w, ResetAnswer("ResetPassword", row.user_email,
                                   password, tok, row, "ErrResetTokenExpired", 0, ""))
               /\ resetTokens' = IF failDelete THEN resetTokens
                                 ELSE SelectSeq(resetTokens, LAMBDA r : r.id # row.id)
          ELSE /\ pc' = [pc EXCEPT ![w] = "updatePassword"]
               /\ loc' = [loc EXCEPT ![w] =
                     ResetLocals("ResetPassword", row.user_email, row, password)]
               /\ UNCHANGED <<last, resetTokens>>
       /\ UNCHANGED <<users, organizations, counters, items, itemSeq, resetSeq,
                      resetLog, ret, allocLog, now, cfg, pair, legacy>>

\* Handlers.SetNewPassword: the token row is looked up together with its expiry
\* (token = ? AND expired_at > now); nothing is deleted here
SetNewPasswordFind(w, tok, password, fail) ==
    LET row == FindResetToken(tok)
    IN /\ pc[w] = "idle"
       /\ calls < MaxCalls
       /\ calls' = calls + 1
       /\ IF fail
          THEN ResetReturn(w, ResetAnswer("SetNewPassword", "", password, tok,
                                 NoResetToken, "store error", 500,
                                 "Failed to validate token"))
          ELSE IF row = NoResetToken \/ ~(row.expired_at > now)
          THEN ResetReturn(w, ResetAnswer("SetNewPassword", "", password, tok, row,
                                 "ErrRecordNotFound", 400, "Invalid or expired token"))
          ELSE /\ pc' = [pc EXCEPT ![w] = "updatePassword"]
               /\ loc' = [loc EXCEPT ![w] =
                     ResetLocals("SetNewPassword", row.user_email, row, password)]
               /\ UNCHANGED last
       /\ UNCHANGED <<storeVars, ret, allocLog, now, cfg, pair, legacy>>

\* ResetPassword and SetNewPassword: UPDATE users SET password = ? WHERE email = ?
\* with the email of the row that was read (no row matched is no error)
ResetPasswordUpdate(w, fail) ==
    /\ pc[w] = "updatePassword"
    /\ IF fail
       THEN /\ ResetReturn(w, ResetAnswer(loc[w].op, loc[w].email, loc[w].password,
                                loc[w].row.token, loc[w].row, "store error", 500,
                                "Failed to update password"))
            /\ UNCHANGED <<users, resetLog>>
       ELSE /\ users' = IF Row(loc[w].email).present
                        THEN [users EXCEPT ![loc[w].email].password = loc[w].password]
                        ELSE users
            /\ resetLog' = IF Row(loc[w].email).present
                           THEN Append(resetLog,
                                    [id |-> loc[w].row.id, token |-> loc[w].row.token,
                                     email |-> loc[w].email,
                                     rowThere |-> FindResetToken(loc[w].row.token)
                                                      = loc[w].row])
                           ELSE resetLog
            /\ pc' = [pc EXCEPT ![w] = "deleteUsed"]
            /\ UNCHANGED <<loc, last>>
    /\ UNCHANGED <<organizations, counters, items, itemSeq, resetTokens, resetSeq, ret,
                   allocLog, calls, now, cfg, pair, legacy>>

\* ResetPassword and SetNewPassword: the used row is deleted by its id; the error
\* of the DELETE is not looked at and the call succeeds
ResetPasswordDelete(w, fail) ==
    /\ pc[w] = "deleteUsed"
    /\ resetTokens' = IF fail THEN resetTokens
                      ELSE SelectSeq(resetTokens, LAMBDA r : r.id # loc[w].row.id)
    /\ ResetReturn(w, ResetAnswer(loc[w].op, loc[w].email, loc[w].password,
                        loc[w].row.token, loc[w].row, "nil", 200, ""))
    /\ UNCHANGED <<users, organizations, counters, items, itemSeq, resetSeq, resetLog,
                   ret, allocLog, calls, now, cfg, pair, legacy>>

\* Handlers.RequestPasswordReset (POST /api/users/reset-password): the token is
\* "reset_" and the Unix time in seconds; earlier rows of the user are left
RequestPasswordReset(email, fail) ==
    LET tok == "reset_" \o FormatInt(Unix(now))
        row == ResetTokenRow(resetSeq + 1, tok, now + ResetLifetime, email)
    IN /\ calls < MaxCalls
       /\ calls' = calls + 1
       /\ IF ~fail /\ ~Row(email).present
          THEN /\ last' = ResetAnswer("RequestPasswordReset", email, "", "",
                              NoResetToken, "ErrRecordNotFound", 404, "User not found")
               /\ UNCHANGED <<resetTokens, resetSeq>>
          ELSE IF fail \/ ~CanInsertResetToken(tok, email)
          THEN /\ last' = ResetAnswer("RequestPasswordReset", email, "", "",
                              NoResetToken, "store error", 500,
                              IF fail THEN "Failed to process request"
                              ELSE "Failed to create reset token")
               /\ UNCHANGED <<resetTokens, resetSeq>>
          ELSE /\ resetTokens' = Append(resetTokens, row)
               /\ resetSeq' = resetSeq + 1
               /\ last' = ResetAnswer("RequestPasswordReset", email, "", tok, row,
                              "nil", 200, "")
       /\ UNCHANGED <<users, organizations, counters, items, itemSeq, resetLog, pc, loc,
                      ret, allocLog, now, cfg, pair, legacy>>

\* the clock runs on by a second or by the lifetime of a reset token; a
\* behaviour sees the first instants of the run and those a lifetime later
Sleep(d) ==
    /\ now + d <= ResetLifetime + MaxAllocTime
    /\ (now + d) % ResetLifetime <= MaxAllocTime
    /\ now' = now + d
    /\ UNCHANGED <<storeVars, pc, loc, ret, allocLog, calls, authVars>>

\* the token strings a client can send: those generated, those of the handler
\* for the seconds of a behaviour
SentTokens ==
    ResetStrings \cup {"reset_" \o FormatInt(s) : s \in 0..1}

NextResetRequest ==
    \/ Sleep(TicksPerSec)
    \/ \E e \in Emails, f \in BOOLEAN : CreateUserPlain(e, "password123", f)
    \/ \E e \in Emails : DeleteUserRow(e)
    \/ \E w \in Workers, e \in Emails, f \in BOOLEAN : CreateResetTokenLookup(w, e, f)
    \/ \E w \in Workers, f \in BOOLEAN : CreateResetTokenDelete(w, f)
    \/ \E w \in Workers, t \in ResetStrings, f \in BOOLEAN :
           CreateResetTokenCreate(w, t, f)
    \/ \E e \in Emails, f \in BOOLEAN : RequestPasswordReset(e, f)

\* reset tokens are requested, through the reset service and through the
\* handler, concurrently, with registration, deletion and the clock
SpecResetRequest == Init /\ [][NextResetRequest]_vars

NextResetUse ==
    \/ \E d \in {TicksPerSec, ResetLifetime} : Sleep(d)
    \/ \E e \in Emails : CreateUserPlain(e, "password123", FALSE)
    \/ \E e \in Emails : DeleteUserRow(e)
    \/ \E e \in Emails : RequestPasswordReset(e, FALSE)
    \/ \E w \in Workers, t \in SentTokens, p \in NewPasswords, f, g \in BOOLEAN :
           ResetPasswordValidate(w, t, p, f, g)
    \/ \E w \in Workers, t \in SentTokens, p \in NewPasswords, f \in BOOLEAN :
           SetNewPasswordFind(w, t, p, f)
    \/ \E w \in Workers, f \in BOOLEAN : ResetPasswordUpdate(w, f)
    \/ \E w \in Workers, f \in BOOLEAN : ResetPasswordDelete(w, f)

\* reset tokens are requested and used, through the reset service and through
\* the handler, concurrently, with registration, deletion and the clock
SpecResetUse == Init /\ [][NextResetUse]_vars

\* ------------------------------------------------------------------ tokens and the store

\* the token strings of the rows in reset_tokens (a client sends what it got)
StoredTokens == {resetTokens[i].token : i \in DOMAIN resetTokens}

\* the user whose tokens are followed
Subject == "ann@a.io"

NextStateless ==
    \/ (now < MaxAllocTime /\ Tick)
    \/ \E e \in Emails : CreateUserPlain(e, "password123", FALSE)
    \/ DeleteUserRow(Subject)
    \/ Login(Subject, "password123", FALSE)
    \/ RequestPasswordReset(Subject, FALSE)
    \/ \E t \in StoredTokens : SetNewPasswordFind(1, t, "newpassword123", FALSE)
    \/ ResetPasswordUpdate(1, FALSE)
    \/ ResetPasswordDelete(1, FALSE)
    \/ \E tok \in {pair.Token, pair.RefreshToken} : CallValidateToken(tok)
    \/ \E tok \in {pair.Token, pair.RefreshToken} : CallValidateRefreshToken(tok)
    \/ \E tok \in {pair.Token, pair.RefreshToken} : VerifyToken(tok)
    \/ \E tok \in {pair.Token, pair.RefreshToken} : AuthMiddleware(Header("Bearer ", tok))

\* tokens of a login are validated while the store changes under them: the
\* user is deleted, registered again, or has the password reset
SpecStateless == InitAuth /\ [][NextStateless]_vars

\* ------------------------------------------------------------------ items: get, update, delete

TagIDs == {1}                    \* ids of rows of the tags table
NoTags == {0}                    \* the tags of a request that has none (nil); 0 is no tag id
ItemIDs == 1..MaxItems           \* ids a request can name

\* what an update request carries as name, description and tags
ItemTexts ==
    {[name |-> "bag", description |-> "red", tags |-> TagIDs],
     [name |-> "", description |-> "", tags |-> NoTags]}

\* the row of an id, NoItem when there is none
ItemByID(id) ==
    IF \E i \in DOMAIN items : items[i].id = id
    THEN items[CHOOSE i \in DOMAIN items : items[i].id = id]
    ELSE NoItem

\* the lookup finds the row of the id whoever owns it
Owned_AnyUser(id, email) == ItemByID(id)

\* WHERE id = ? AND user_email = ?
Owned(id, email) ==
    IF ItemByID(id).user_email = email THEN ItemByID(id) ELSE NoItem

\* parent_id REFERENCES items(id): NULL or the id of a row
ParentExists(parent) == parent = 0 \/ ItemByID(parent) # NoItem

\* the table with the row of row.id replaced
ReplaceItem(row) ==
    [i \in DOMAIN items |-> IF items[i].id = row.id THEN row ELSE items[i]]

\* the table without the row of id; parent_id is ON DELETE SET NULL
RemoveItem(id) ==
    LET rest == SelectSeq(items, LAMBDA r : r.id # id)
    IN [i \in DOMAIN rest |->
           IF rest[i].parent_id = id THEN [rest[i] EXCEPT !.parent_id = 0]
           ELSE rest[i]]

\* Preload("Parent"): the rows a response carries, the item and its parent
WithParent(row) ==
    IF row = NoItem THEN {}
    ELSE {row} \cup (IF ItemByID(row.parent_id) = NoItem THEN {}
                     ELSE {ItemByID(row.parent_id)})

\* Preload("Children"): the rows whose parent_id is id
Children(id) == {items[i] : i \in {j \in DOMAIN items : items[j].parent_id = id}}

\* the answer of an item call made as email on the item of an id: target the
\* row of the id before the call (whoever owns it), after the row of the id
\* after the call, returned the rows in the answer
ItemAnswer(op, email, id, result, status, returned, after) ==
    [op |-> op, at |-> now, email |-> email, result |-> result, status |-> status,
     id |-> id, target |-> ItemByID(id), returned |-> returned, after |-> after]

\* item.Service.CreateItem as one call that no other call overlaps: user
\* lookup, prefix draw for a user without prefix, allocation, INSERT with the
\* parent_id it was given
ServiceCreateItem(email, name, parent, draw, fail) ==
    LET prefix == IF users[email].prefix = "" THEN draw ELSE users[email].prefix
        number == Counter(prefix) + 1
        row == [ItemRow(itemSeq + 1, prefix \o Sprintf04d(number), email)
                    EXCEPT !.name = name, !.parent_id = parent]
    IN /\ Len(allocLog) < MaxItems
       /\ Idle
       /\ IF ~users[email].present
          THEN /\ UNCHANGED <<users, counters, allocLog, items, itemSeq>>
               /\ last' = ItemAnswer("CreateItem", email, 0, "ErrRecordNotFound", 0,
                                     {}, NoItem)
          ELSE /\ users' = [users EXCEPT ![email].prefix = prefix]
               /\ counters' = SetCounter(prefix, number)
               /\ allocLog' = Append(allocLog, [prefix |-> prefix, number |-> number])
               /\ IF fail \/ ~ParentExists(parent)
                  THEN /\ UNCHANGED <<items, itemSeq>>
                       /\ last' = ItemAnswer("CreateItem", email, 0, "store error", 0,
                                             {}, NoItem)
                  ELSE /\ items' = Append(items, row)
                       /\ itemSeq' = itemSeq + 1
                       /\ last' = ItemAnswer("CreateItem", email, row.id, "nil", 0,
                                             WithParent(row), row)
       /\ UNCHANGED <<organizations, resetVars, pc, loc, ret, calls, now, cfg, pair,
                      legacy>>

\* item.Service.GetItem
ServiceGetItem(id, email, fail) ==
    /\ last' = IF fail
               THEN ItemAnswer("GetItem", email, id, "store error", 0, {}, ItemByID(id))
               ELSE IF Owned(id, email) = NoItem
               THEN ItemAnswer("GetItem", email, id, "ErrItemNotFound", 0, {},
                               ItemByID(id))
               ELSE ItemAnswer("GetItem", email, id, "nil", 0,
                               WithParent(Owned(id, email)) \cup Children(id),
                               ItemByID(id))
    /\ UNCHANGED <<storeVars, pc, loc, ret, allocLog, calls, now, cfg, pair, legacy>>

\* item.Service.UpdateItem: GetItem, then name, description and parent_id are
\* set to what was given and the row is saved; given tags replace the old ones
ServiceUpdateItem(id, email, text, parent, fail) ==
    LET found == Owned(id, email)
        tagIDs == text.tags
        saved == [found EXCEPT !.name = text.name, !.description = text.description,
                               !.parent_id = parent]
        row == IF tagIDs = NoTags THEN saved ELSE [saved EXCEPT !.tags = tagIDs]
    IN /\ IF found = NoItem
          THEN /\ last' = ItemAnswer("UpdateItem", email, id, "ErrItemNotFound", 0, {},
                                     ItemByID(id))
               /\ UNCHANGED items
          ELSE IF fail \/ ~ParentExists(parent)
          THEN /\ last' = ItemAnswer("UpdateItem", email, id, "store error", 0, {},
                                     ItemByID(id))
               /\ UNCHANGED items
          ELSE /\ items' = ReplaceItem(row)
               /\ last' = ItemAnswer("UpdateItem", email, id, "nil", 0,
                                     {row} \cup ((WithParent(row) \cup Children(id))
                                                    \ {found}), row)
       /\ UNCHANGED <<users, organizations, counters, itemSeq, resetVars, pc, loc, ret,
                      allocLog, calls, now, cfg, pair, legacy>>

\* item.Service.DeleteItem
ServiceDeleteItem(id, email, fail) ==
    /\ IF fail
       THEN /\ last' = ItemAnswer("DeleteItem", email, id, "store error", 0, {},
                                  ItemByID(id))
            /\ UNCHANGED items
       ELSE IF Owned(id, email) = NoItem
       THEN /\ last' = ItemAnswer("DeleteItem", email, id, "ErrItemNotFound", 0, {},
                                  ItemByID(id))
            /\ UNCHANGED items
       ELSE /\ items' = RemoveItem(id)
            /\ last' = ItemAnswer("DeleteItem", email, id, "nil", 0, {}, NoItem)
    /\ UNCHANGED <<users, organizations, counters, itemSeq, resetVars, pc, loc, ret,
                   allocLog, calls, now, cfg, pair, legacy>>

\* Handlers.GetItem (GET /api/items/:item_id) as the user of the token
HandlersGetItem(id, email, fail) ==
    /\ last' = IF fail
               THEN ItemAnswer("HandlersGetItem", email, id, "store error", 500, {},
                               ItemByID(id))
               ELSE IF Owned(id, email) = NoItem
               THEN ItemAnswer("HandlersGetItem", email, id, "ErrRecordNotFound", 404,
                               {}, ItemByID(id))
               ELSE ItemAnswer("HandlersGetItem", email, id, "nil", 200,
                               WithParent(Owned(id, email)), ItemByID(id))
    /\ UNCHANGED <<storeVars, pc, loc, ret, allocLog, calls, now, cfg, pair, legacy>>

\* Handlers.UpdateItem (PATCH /api/items/:item_id): only what the request
\* carries is written: a non-empty name, a non-empty description, a parent
\* that is not null, tags that are given
HandlersUpdateItem(id, email, text, parent, fail) ==
    LET found == Owned(id, email)
        tagIDs == text.tags
        row == [found EXCEPT
                  !.name = IF text.name # "" THEN text.name ELSE @,
                  !.description = IF text.description # "" THEN text.description ELSE @,
                  !.parent_id = IF parent # 0 THEN parent ELSE @,
                  !.tags = IF tagIDs # NoTags THEN tagIDs ELSE @]
    IN /\ IF found = NoItem
          THEN /\ last' = ItemAnswer("HandlersUpdateItem", email, id,
                                     "ErrRecordNotFound", 404, {}, ItemByID(id))
               /\ UNCHANGED items
          ELSE IF fail \/ ~ParentExists(parent)
          THEN /\ last' = ItemAnswer("HandlersUpdateItem", email, id, "store error",
                                     500, {}, ItemByID(id))
               /\ UNCHANGED items
          ELSE /\ items' = ReplaceItem(row)
               /\ last' = ItemAnswer("HandlersUpdateItem", email, id, "nil", 200,
                                     {row} \cup (WithParent(row) \ {found}), row)
       /\ UNCHANGED <<users, organizations, counters, itemSeq, resetVars, pc, loc, ret,
                      allocLog, calls, now, cfg, pair, legacy>>

\* Handlers.DeleteItem (DELETE /api/items/:item_id): 204 whether a row matched
\* or not
HandlersDeleteItem(id, email, fail) ==
    /\ IF fail
       THEN /\ last' = ItemAnswer("HandlersDeleteItem", email, id, "store error", 500,
                                  {}, ItemByID(id))
            /\ UNCHANGED items
       ELSE IF Owned(id, email) = NoItem
       THEN /\ last' = ItemAnswer("HandlersDeleteItem", email, id, "nil", 204, {},
                                  ItemByID(id))
            /\ UNCHANGED items
       ELSE /\ items' = RemoveItem(id)
            /\ last' = ItemAnswer("HandlersDeleteItem", email, id, "nil", 204, {},
                                  NoItem)
    /\ UNCHANGED <<users, organizations, counters, itemSeq, resetVars, pc, loc, ret,
                   allocLog, calls, now, cfg, pair, legacy>>

NextItems ==
    \/ \E e \in Emails : CreateUser(e, "password123", "none")
    \/ \E e \in Emails, parent \in {0} \cup ItemIDs, f \in BOOLEAN :
           ServiceCreateItem(e, "box", parent, "ABC", f)
    \/ \E id \in ItemIDs, e \in Emails, f \in BOOLEAN : ServiceGetItem(id, e, f)
    \/ \E id \in ItemIDs, e \in Emails, x \in ItemTexts, parent \in {0} \cup ItemIDs :
           ServiceUpdateItem(id, e, x, parent, FALSE)
    \/ \E id \in ItemIDs, e \in Emails, x \in ItemTexts :
           ServiceUpdateItem(id, e, x, 0, TRUE)
    \/ \E id \in ItemIDs, e \in Emails, f \in BOOLEAN : ServiceDeleteItem(id, e, f)
    \/ \E id \in ItemIDs, e \in Emails, f \in BOOLEAN : HandlersGetItem(id, e, f)
    \/ \E id \in ItemIDs, e \in Emails, x \in ItemTexts, parent \in {0} \cup ItemIDs :
           HandlersUpdateItem(id, e, x, parent, FALSE)
    \/ \E id \in ItemIDs, e \in Emails, x \in ItemTexts :
           HandlersUpdateItem(id, e, x, 0, TRUE)
    \/ \E id \in ItemIDs, e \in Emails, f \in BOOLEAN : HandlersDeleteItem(id, e, f)

\* registered users create, read, update and delete items, one call after the
\* other, through the item service and through the handlers
SpecItems == Init /\ [][NextItems]_vars

\* ------------------------------------------------------------------ claims: allocator

\* the positions of allocLog that hold an allocation for prefix
AllocationsOf(prefix) == {i \in DOMAIN allocLog : allocLog[i].prefix = prefix}

\* C1: the sequence numbers that successful getNextID calls return for one
\* prefix, however the calls interleave, are pairwise distinct and form the
\* contiguous run that starts at the stored counter (none at first: 0) plus 1.
C1_DistinctContiguousAllocations ==
    \A p \in {allocLog[i].prefix : i \in DOMAIN allocLog} :
        /\ \A i, j \in AllocationsOf(p) :
               i # j => allocLog[i].number # allocLog[j].number
        /\ {allocLog[i].number : i \in AllocationsOf(p)}
               = 1..Cardinality(AllocationsOf(p))

\* C2: a CreateItem call that returns an error once allocation has begun has
\* committed no change of the counter row and inserted no item row.
C2_FailedCreateItemLeavesNothing ==
    ret.status = "error" => ~ret.counterCommitted /\ ~ret.itemInserted

\* C3: no two rows of the items table have the same backpack_id.
C3_BackpackIDsUnique ==
    \A i, j \in DOMAIN items : i # j => items[i].backpack_id # items[j].backpack_id

\* ------------------------------------------------------------------ claims: tokens

\* the instants of a behaviour
Instants == 0..MaxTime

\* what the generators can have produced under the configuration
AccessTokens == {GenerateAccessToken(e, t) : e \in Emails, t \in Instants}
RefreshTokens == {GenerateRefreshToken(e, t) : e \in Emails, t \in Instants}
UntypedTokens == {GenerateToken(e, x, t) : e \in Emails, x \in Lifetimes, t \in Instants}

\* the token of the last call was not yet expired when the call was made
Unexpired == last.at < last.token.exp * TicksPerSec

Accepted == last.result = "nil" /\ last.email = last.token.email

C6_PairTokensDiffer ==
    last.issued # NoPair
        => /\ last.issued.Token # NoToken
           /\ last.issued.RefreshToken # NoToken
           /\ last.issued.Token # last.issued.RefreshToken

\* ------------------------------------------------------------------ claims: handlers

\* C7: a refresh token of a user whose row is gone when RefreshToken is called is
\* answered without tokens although signature and expiry are still valid: with
\* 401 "User not found" when the store answers the lookup, with 500 when the
\* lookup itself fails.
C7_RefreshOfDeletedUserFails ==
    last.op = "RefreshToken" /\ last.token \in RefreshTokens /\ Unexpired
        /\ ~last.row.present
        => /\ last.issued = NoPair
           /\ ~last.storeFailed
                  => last.status = 401 /\ last.error = "User not found"
           /\ last.storeFailed => last.status = 500

\* the refresh token of the held pair (issued by a login of the user) was
\* presented in time after the user's row was deleted
C7_Witness ==
    /\ last.op = "RefreshToken"
    /\ last.original # NoPair
    /\ last.token = last.original.RefreshToken
    /\ Unexpired
    /\ ~last.row.present
    /\ ~last.storeFailed
    /\ last.status = 401
    /\ last.error = "User not found"
    /\ last.issued = NoPair

\* C8: a successful RefreshToken call returns a new access token and a new
\* refresh token, both different from the two tokens of the pair the presented
\* refresh token belongs to, whatever the time between issue and refresh.
C8_RefreshRotatesBothTokens ==
    last.op = "RefreshToken" /\ last.status = 200 /\ last.original # NoPair
        => /\ last.issued.Token # NoToken
           /\ last.issued.RefreshToken # NoToken
           /\ last.issued.Token
                  \notin {last.original.Token, last.original.RefreshToken}
           /\ last.issued.RefreshToken
                  \notin {last.original.Token, last.original.RefreshToken}

\* C9: when the store answers, a login for an email without a user row and a
\* login with a wrong password for an existing row both get the one error value
\* ErrInvalidCredentials from ValidateUser and 401 "Invalid credentials" from
\* Login, with no tokens.
C9_CredentialOracleResistance ==
    last.op = "Login" /\ ~last.storeFailed
        /\ (~last.row.present \/ last.row.password # last.password)
        => /\ last.result = "ErrInvalidCredentials"
           /\ last.status = 401
           /\ last.error = "Invalid credentials"
           /\ last.issued = NoPair

\* a login with a wrong password for an existing user was refused
C9_Witness ==
    /\ last.op = "Login"
    /\ ~last.storeFailed
    /\ last.row.present
    /\ last.row.password # last.password
    /\ last.result = "ErrInvalidCredentials"
    /\ last.status = 401

\* the answer of ValidateToken to an access token follows the clock alone
VerifiedByExpiry ==
    last.op = "VerifyToken" /\ last.token \in AccessTokens
        => IF Unexpired
           THEN last.result = "nil" /\ last.email = last.token.email
                    /\ last.status = 200
           ELSE last.result # "nil" /\ last.email = "" /\ last.status = 401

\* C10: every ValidateToken call on an access token issued for an email returns
\* that email before the token's expiry instant and an error at or after it; the
\* clock never runs backwards, so a token rejected for expiry is never accepted
\* again; and no such call changes the store or the signing configuration.
C10_IdempotentVerification ==
    /\ []VerifiedByExpiry
    /\ [][now' >= now]_vars
    /\ [][last'.op = "VerifyToken" /\ last' # last
              => UNCHANGED <<storeVars, cfg>>]_vars

\* the access token of the held pair was verified at its expiry instant and
\* rejected, with a user in the store
C10_Witness ==
    /\ last.op = "VerifyToken"
    /\ pair # NoPair
    /\ last.token = pair.Token
    /\ last.at = last.token.exp * TicksPerSec
    /\ last.result = "token is expired"
    /\ \E e \in Emails : users[e].present

\* ------------------------------------------------------------------ claims: codec

\* what a round trip must give: the email the token was generated with, and an
\* expiry of issue time plus lifetime, cut to whole seconds
RoundTripExact ==
    /\ last.result = "nil"
    /\ last.email = last.subject
    /\ last.token.exp = (last.at + last.lifetime) \div TicksPerSec

\* C11 as claimed: for every email (the empty one too), every kind and every
\* positive lifetime, a token validated as soon as it is generated, by the
\* matching validator, gives back its email, and its expiry is issue time plus
\* lifetime in whole seconds.
C11_RoundTripAnyLifetime ==
    last.op = "RoundTrip" /\ last.lifetime > 0 => RoundTripExact

\* C11, amended: the same for every lifetime of at least one second.
C11_RoundTripFromOneSecond ==
    last.op = "RoundTrip" /\ last.lifetime >= TicksPerSec => RoundTripExact

\* a refresh token for the empty email, of a lifetime above one second, made the
\* round trip in the middle of a second
C11_Witness ==
    /\ last.op = "RoundTrip"
    /\ last.subject = ""
    /\ last.kind = "refresh"
    /\ last.lifetime > TicksPerSec
    /\ last.at % TicksPerSec # 0
    /\ RoundTripExact

\* C12: a token signed under another secret is rejected by ValidateToken and by
\* ValidateRefreshToken, whatever its email, kind and expiry.
C12_WrongSecretRejected ==
    last.op \in {"ValidateToken", "ValidateRefreshToken"}
        /\ last.token.key # SecretKey
        => last.result # "nil" /\ last.email = ""

\* an unexpired token of the matching kind, signed under the other secret, was
\* rejected by ValidateRefreshToken for its signature
C12_Witness ==
    /\ last.op = "ValidateRefreshToken"
    /\ last.token.key = OtherSecretKey
    /\ last.token.token_type = "refresh"
    /\ Unexpired
    /\ last.result = "signature is invalid"

\* ------------------------------------------------------------------ claims: middleware

\* C13: AuthMiddleware lets a request through to the protected handler only if
\* the header is there, starts with "Bearer " and the rest is a token
\* ValidateToken accepts (signed with the key, unexpired, not of kind refresh);
\* user_email is then the email of the token. Every other request is answered
\* 401 and the handler is not invoked.
C13_MiddlewareGuardsHandler ==
    last.op = "AuthMiddleware"
        => /\ last.handlerInvoked
                 <=> /\ last.header.scheme = "Bearer "
                     /\ last.token.key = SecretKey
                     /\ last.at < last.token.exp * TicksPerSec
                     /\ last.token.token_type # "refresh"
           /\ last.handlerInvoked => last.user_email = last.token.email
           /\ ~last.handlerInvoked => last.status = 401 /\ last.user_email = ""

\* an unexpired refresh token of the held pair came with "Bearer " and got 401
C13_Witness ==
    /\ last.op = "AuthMiddleware"
    /\ last.header.scheme = "Bearer "
    /\ pair # NoPair
    /\ last.token = pair.RefreshToken
    /\ Unexpired
    /\ last.status = 401
    /\ ~last.handlerInvoked

\* ------------------------------------------------------------------ claims: login

\* C14: Login answers 200 with a token pair for the email only if, when it
\* looks, the email has a user row whose stored password is byte for byte the
\* supplied one; an unknown email or a wrong password gets 401 "Invalid
\* credentials" and no token.
C14_LoginOnlyWithExactPassword ==
    last.op = "Login"
        => /\ last.status = 200
                 => /\ last.row.present
                    /\ last.row.password = last.password
                    /\ last.issued = GenerateTokenPair(last.email, last.at)
           /\ last.status # 200 => last.issued = NoPair
           /\ ~last.storeFailed /\ last.row.present
                 /\ last.row.password = last.password
                 => last.status = 200
           /\ ~last.storeFailed
                 /\ (~last.row.present \/ last.row.password # last.password)
                 => last.status = 401 /\ last.error = "Invalid credentials"

\* a login with the stored password plus a trailing space was refused
C14_Witness ==
    /\ last.op = "Login"
    /\ ~last.storeFailed
    /\ last.row.present
    /\ last.row.password = "password123"
    /\ last.password = "password123 "
    /\ last.status = 401
    /\ last.issued = NoPair

\* ------------------------------------------------------------------ claims: registration

RegisterOps == {"RegisterUser", "RegisterUserPlain"}

\* C15: registering an email that has a user row fails: CreateUser returns an
\* error, RegisterUser does not answer 201, and the row stays as it was
\* (password, prefix, organization). The users table is keyed by email, so the
\* unchanged row is the one row of the email.
C15_DuplicateRegistrationFails ==
    /\ [](last.op \in RegisterOps /\ last.row.present
              => last.result # "nil" /\ last.status # 201)
    /\ [][\A e \in Emails :
              last'.op \in RegisterOps /\ last' # last /\ last'.email = e
                  /\ users[e].present
                  => /\ users'[e] = users[e]
                     /\ organizations' = organizations
                     /\ last'.status # 201]_vars

\* an existing email was registered again with another password, the store
\* working, and the row still has the first password
C15_Witness ==
    /\ last.op = "RegisterUser"
    /\ last.row.present
    /\ ~last.storeFailed
    /\ last.password # last.row.password
    /\ last.status = 500
    /\ users[last.email] = last.row

\* C16: CreateUser with organization is atomic: a call leaves a new
\* organization row exactly if it leaves a new user row, the user row then
\* points to that organization, and a call that returns an error (duplicate
\* email, store error at any statement, commit failure) leaves both tables as
\* they were.
C16_RegistrationAtomic ==
    [][last'.op = "RegisterUser" /\ last' # last
           => /\ Len(organizations') > Len(organizations)
                    <=> users'[last'.email] # users[last'.email]
              /\ \A e \in Emails \ {last'.email} : users'[e] = users[e]
              /\ users'[last'.email] # users[last'.email]
                    => /\ users'[last'.email].org = Len(organizations')
                       /\ organizations'[Len(organizations')] = last'.email \o "_org"
                       /\ last'.result = "nil"
              /\ last'.result # "nil"
                    => users' = users /\ organizations' = organizations]_vars

\* a registration of a new email failed in the store and left no organization
\* and no user
C16_Witness ==
    /\ last.op = "RegisterUser"
    /\ last.storeFailed
    /\ last.result = "store error"
    /\ ~last.row.present
    /\ ~users[last.email].present
    /\ organizations = <<>>

\* ------------------------------------------------------------------ claims: allocator, continued

\* the 4-digit string of a number below ten
FourDigits(k) == "000" \o Digit(k)

\* C17: when no two CreateItem calls overlap, the k-th successful allocation
\* for a prefix returns k: the first creates the counter row with number 1 and
\* returns "0001", each later one adds exactly 1 to the stored number and
\* returns the new value; an item created with it is named prefix \o that
\* string (prefix0001, then prefix0002).
C17_SequentialAllocationCounts ==
    /\ \A i \in DOMAIN allocLog :
           allocLog[i].number
               = Cardinality({j \in AllocationsOf(allocLog[i].prefix) : j <= i})
    /\ \A q \in DOMAIN counters :
           counters[q] = Cardinality(AllocationsOf(q)) /\ counters[q] >= 1
    /\ \A w \in Workers :
           pc[w] = "allocated"
               => /\ loc[w].nextID = FourDigits(counters[loc[w].user.prefix])
                  /\ loc[w].nextID # "0000"
    /\ \A i \in DOMAIN items :
           \E k \in 1..Counter(users[items[i].user_email].prefix) :
               items[i].backpack_id
                   = users[items[i].user_email].prefix \o FourDigits(k)

\* two items made one after the other for a user: prefix0001 and prefix0002
C17_Witness ==
    /\ Len(items) = 2
    /\ items[1].user_email = items[2].user_email
    /\ items[1].backpack_id = users[items[1].user_email].prefix \o "0001"
    /\ items[2].backpack_id = users[items[1].user_email].prefix \o "0002"
    /\ Len(allocLog) = 2

\* the k-th allocation in the log of each prefix has number k
EachPrefixCountsUp ==
    \A i \in DOMAIN allocLog :
        allocLog[i].number
            = Cardinality({j \in AllocationsOf(allocLog[i].prefix) : j <= i})

\* a worker about to write its counter row is not held up by another prefix
NeverBlocked ==
    \A w \in Workers :
        pc[w] \in {"notFound", "found"} => ~RowLocked(w, loc[w].user.prefix)

C19_PrefixGeneratedOnce ==
    /\ \A w \in Workers :
           pc[w] \in {"getNextID", "notFound", "found", "written", "allocated"}
               /\ users[loc[w].email].present
               => loc[w].user.prefix = users[loc[w].email].prefix
    /\ \A i \in DOMAIN items :
           users[items[i].user_email].present
               => /\ users[items[i].user_email].prefix # ""
                  /\ HasPrefix(items[i].backpack_id,
                               users[items[i].user_email].prefix)

\* C20: no item without an allocated identifier: a CreateItem call that returns
\* an error has inserted no item, and every item row is named with the prefix
\* of its owner followed by the 4-digit number of a committed allocation for
\* that prefix.
C20_ItemsCarryAllocatedID ==
    /\ ret.status = "error" => ~ret.itemInserted
    /\ \A i \in DOMAIN items :
           \E j \in DOMAIN allocLog :
               /\ items[i].backpack_id
                      = allocLog[j].prefix \o Sprintf04d(allocLog[j].number)
               /\ users[items[i].user_email].present
                      => allocLog[j].prefix = users[items[i].user_email].prefix

\* ------------------------------------------------------------------ claims: password reset

\* C21: each user has at most one reset token row: a new token of a user takes
\* the place of every earlier one, also when two requests for the user run at
\* the same time or within one second.
C21_OneResetTokenPerUser ==
    \A i, j \in DOMAIN resetTokens :
        i # j => resetTokens[i].user_email # resetTokens[j].user_email

\* the answer of a reset attempt that found its token expired
FoundExpired ==
    \/ last.op = "ResetPassword" /\ last.result = "ErrResetTokenExpired"
    \/ /\ last.op = "SetNewPassword" /\ last.status = 400
       /\ last.reset # NoResetToken

\* C22: a reset token is used at most once: no token row changes a password
\* twice, none changes a password once its row is deleted, the row is gone
\* after the reset that used it has answered, and a token found expired is
\* deleted.
C22_ResetTokenSingleUse ==
    /\ \A i, j \in DOMAIN resetLog : i # j => resetLog[i].id # resetLog[j].id
    /\ \A i \in DOMAIN resetLog : resetLog[i].rowThere
    /\ last.op \in {"ResetPassword", "SetNewPassword"} /\ last.result = "nil"
           => \A i \in DOMAIN resetTokens : resetTokens[i].id # last.reset.id
    /\ FoundExpired
           => \A i \in DOMAIN resetTokens : resetTokens[i].id # last.reset.id

\* ------------------------------------------------------------------ claims: user service

CreateOps == {"CreateUser", "CreateUserPlain"}

\* C23: CreateUser called with the empty email and a non-empty password, the
\* store working and holding no such row, returns no error and leaves a user
\* row whose email is the empty string, with the password of the call.
C23_EmptyEmailCreated ==
    last.op \in CreateOps /\ last.email = "" /\ last.password # ""
        /\ ~last.storeFailed /\ ~last.row.present
        => /\ last.result = "nil"
           /\ last.after.present
           /\ last.after.password = last.password

\* ------------------------------------------------------------------ claims: counter rows

\* the prefixes users can have
Prefixes == Letters3 \cup {EmailPrefix(e) : e \in Emails}

\* C24: there is at most one counter row per prefix, also after two first
\* allocations for a new prefix at the same time: an INSERT of a row commits
\* only where the prefix has no row; the row of a prefix, once there, stays and
\* is only updated; and its number never decreases.
C24_OneCounterRowPerPrefix ==
    [][/\ \A w \in Workers :
              pc[w] = "written" /\ pc'[w] = "allocated" /\ loc[w].number = 1
                  => Counter(loc[w].user.prefix) = 0
       /\ \A q \in Prefixes : Counter(q)' >= Counter(q)
       /\ \A q \in Prefixes : Counter(q) = 0 /\ Counter(q)' # 0 => Counter(q)' = 1]_vars

\* ------------------------------------------------------------------ claims: prefix namespace

\* C25: a prefix names the identifiers of one user: no two users have the same
\* non-empty prefix, whether it came from the email at registration or from
\* the draw in CreateItem, and the items named under a prefix are those of one
\* user.
C25_PrefixNamesOneUser ==
    /\ \A e1, e2 \in DOMAIN users :
           e1 # e2 /\ users[e1].present /\ users[e2].present
               /\ users[e1].prefix # ""
               => users[e1].prefix # users[e2].prefix
    /\ \A i, j \in DOMAIN items :
           \A q \in Prefixes \cup {EmailPrefix(e) : e \in DOMAIN users} :
               HasPrefix(items[i].backpack_id, q)
                   /\ HasPrefix(items[j].backpack_id, q)
                   => items[i].user_email = items[j].user_email

\* ------------------------------------------------------------------ claims: tokens and the store

ValidationOps == {"ValidateToken", "ValidateRefreshToken", "VerifyToken", "AuthMiddleware"}

\* what the token and the time of a call alone say about an access validation
AccessVerdict ==
    IF last.token.key # SecretKey THEN "signature is invalid"
    ELSE IF ~(last.at < last.token.exp * TicksPerSec) THEN "token is expired"
    ELSE IF last.token.token_type \notin {NoTokenType, "access"} THEN "ErrInvalidKey"
    ELSE "nil"

\* the same for a refresh validation
RefreshVerdict ==
    IF last.token.key # SecretKey THEN "signature is invalid"
    ELSE IF ~(last.at < last.token.exp * TicksPerSec) THEN "token is expired"
    ELSE IF last.token.token_type \notin {NoTokenType, "refresh"} THEN "ErrInvalidKey"
    ELSE "nil"

\* C26: validation looks at the token and the clock only: the answer of
\* ValidateToken, VerifyToken (for a request that carries a token) and
\* AuthMiddleware, and of ValidateRefreshToken, is the one the token and the
\* time give in every state of the store (so the unexpired access token of a user who was deleted or whose password was reset
\* is accepted), and no validation changes the store or the configuration.
C26_ValidationIgnoresStore ==
    /\ [](last.op \in {"ValidateToken", "VerifyToken", "AuthMiddleware"}
              /\ last.result # "binding"
              => last.result = AccessVerdict)
    /\ [](last.op = "ValidateRefreshToken" => last.result = RefreshVerdict)
    /\ [](last.op = "AuthMiddleware" => (last.handlerInvoked <=> AccessVerdict = "nil"))
    /\ [][last'.op \in ValidationOps /\ last' # last
              => UNCHANGED <<storeVars, cfg>>]_vars

\* the access token of a login was let through by AuthMiddleware after the
\* password of its user was reset
C26_Witness ==
    /\ last.op = "AuthMiddleware"
    /\ last.handlerInvoked
    /\ pair # NoPair
    /\ last.token = pair.Token
    /\ resetLog # <<>>
    /\ users[last.token.email].present
    /\ users[last.token.email].password \in NewPasswords

\* C27: CreateUser with organization returns nil only if the call committed a
\* user row with the email and the password of the call; a call that ends in
\* rollback returns an error, for every email, those of fewer than three
\* characters too.
C27_NilOnlyIfCommitted ==
    last.op = "CreateUser"
        => /\ last.result = "nil"
                 => /\ last.committed
                    /\ last.after.present
                    /\ last.after.password = last.password
           /\ ~last.committed => last.result # "nil" /\ last.after = last.row

\* ------------------------------------------------------------------ claims: items

ItemOps ==
    {"GetItem", "UpdateItem", "DeleteItem", "HandlersGetItem", "HandlersUpdateItem",
     "HandlersDeleteItem"}

\* the last call named the item of another user
OnForeignItem ==
    /\ last.op \in ItemOps
    /\ last.target # NoItem
    /\ last.target.user_email # last.email

\* C28: getting, updating or deleting an item with the identity of a user who
\* does not own it returns none of the item's data and leaves its row (name,
\* description, parent, tags, existence) as it was, through the item service
\* and through the handlers
C28_ItemsScopedToOwner ==
    OnForeignItem =>
        /\ \A r \in last.returned : r.id # last.id
        /\ last.after = last.target
        /\ ItemByID(last.id) = last.target

\* bob@b.io deletes, through the handler, the item ann@a.io created and
\* renamed: 204 and the row is still there
C28_Witness ==
    /\ OnForeignItem
    /\ last.op = "HandlersDeleteItem"
    /\ last.email = "bob@b.io"
    /\ last.status = 204
    /\ last.target.user_email = "ann@a.io"
    /\ last.target.name = "bag"
    /\ ItemByID(last.id) = last.target

\* the item reached from id by following parent_id n times, 0 past a root
RECURSIVE Climb(_, _)
Climb(id, n) ==
    IF n = 0 \/ id = 0 THEN id ELSE Climb(ItemByID(id).parent_id, n - 1)

\* every parent_id names a row
ParentsExist ==
    \A i \in DOMAIN items : ParentExists(items[i].parent_id)

\* every parent is an item of the same user
ParentsOfSameUser ==
    \A i \in DOMAIN items :
        items[i].parent_id # 0 /\ ItemByID(items[i].parent_id) # NoItem
            => ItemByID(items[i].parent_id).user_email = items[i].user_email

\* following parent_id from any item ends at a root
NoParentCycle ==
    \A i \in DOMAIN items : Climb(items[i].id, Len(items)) = 0

\* C29: the parent relation on items is a forest, and every parent_id that is
\* not null names an existing item of the same user
C29_ParentForest ==
    /\ ParentsExist
    /\ ParentsOfSameUser
    /\ NoParentCycle

\* ------------------------------------------------------------------ claims: refresh

\* the last call presented a refresh token, signed with the key and not expired
\* at the time of the call, whose user the store had and could be asked for
ExchangeDue ==
    /\ last.op = "RefreshToken"
    /\ last.token.key = SecretKey
    /\ last.token.token_type = "refresh"
    /\ last.at < last.token.exp * TicksPerSec
    /\ last.row.present
    /\ ~last.storeFailed

\* the access and the refresh token of a pair are accepted at the present time
\* exactly while they are not expired
ValidUntilExpiry(p) ==
    /\ ValidateToken(p.Token, now).err = "nil" <=> now < p.Token.exp * TicksPerSec
    /\ ValidateRefreshToken(p.RefreshToken, now).err = "nil"
           <=> now < p.RefreshToken.exp * TicksPerSec

\* C30: RefreshToken does not invalidate the refresh token it is given: every
\* exchange of an unexpired refresh token whose user exists answers 200 with a
\* new pair, whether or not the token was exchanged before; the call changes
\* nothing in the store or the configuration; and the pair the token came
\* with and the pair just issued stay valid until their own expiry
C30_RefreshTokenReusable ==
    /\ [](ExchangeDue =>
             /\ last.status = 200
             /\ last.issued = GenerateTokenPair(last.token.email, last.at))
    /\ [][last'.op = "RefreshToken" /\ last' # last => UNCHANGED <<storeVars, cfg>>]_vars
    /\ [](last.op = "RefreshToken" /\ last.status = 200 /\ last.original # NoPair =>
             ValidUntilExpiry(last.original) /\ ValidUntilExpiry(last.issued))

\* a refresh token is exchanged a second time in a row and answers 200 with a
\* pair that is not the one it came with; that pair is still held and its
\* access token is still accepted
C30_Witness ==
    /\ ExchangeDue
    /\ last.again
    /\ last.status = 200
    /\ last.original = pair
    /\ last.issued # pair
    /\ ValidateToken(pair.Token, now).err = "nil"

====
